---------------------------- MODULE Spec2Model ----------------------------
(***************************************************************************)
(* A model of the SHL assessment recommender: the query -> ranking engine  *)
(* (src/src/advanced_retriever.py, xgboost_reranker.py, llm_reranker.py,   *)
(* ensemble_retriever.py, url_utils.py) and the vector DB build / load     *)
(* (src/src/embeddings.py, retriever.py).                                  *)
(*                                                                         *)
(* Conventions.                                                            *)
(*  - A text is the sequence of its space-separated words, lower-cased     *)
(*    (every use of a name, description or query in the scoring code is    *)
(*    through .lower(); preprocess_query collapses whitespace first).      *)
(*    Python's `needle in text` on strings is Contains(needle, text); it   *)
(*    is decided from the word structure and the tables SubstringPairs,    *)
(*    PrefixPairs, SuffixPairs, which list every pair of distinct words of *)
(*    the vocabulary related by str.__contains__, startswith, endswith.    *)
(*  - Scores are exact reals in units of 1/4000 (0.05 = 200 units), so the *)
(*    penalties 0.9 and 0.95 and every additive weight are exact integers. *)
(*    Floating-point rounding is not modelled.                             *)
(*  - None is NoneInt for numbers, NoneText for texts, "None" for strings. *)
(***************************************************************************)
EXTENDS Integers, Sequences, FiniteSets, TLC

NoneInt == -1000000
NoneText == << "<None>" >>

(***************************************************************************)
(* Generic sequence helpers.                                               *)
(***************************************************************************)
Range(s) == { s[i] : i \in DOMAIN s }

Take(s, n) == SubSeq(s, 1, IF n < Len(s) THEN n ELSE Len(s))

Min(a, b) == IF a <= b THEN a ELSE b

RECURSIVE Flatten(_)
Flatten(ss) == IF ss = << >> THEN << >> ELSE Head(ss) \o Flatten(Tail(ss))

RECURSIVE SelectIdx(_, _, _)
\* the subsequence of s at the indices i (ascending) for which keep[i]
SelectIdx(s, keep, i) ==
    IF i > Len(s) THEN << >>
    ELSE (IF keep[i] THEN << s[i] >> ELSE << >>) \o SelectIdx(s, keep, i + 1)

Reverse(s) == [ i \in 1..Len(s) |-> s[Len(s) + 1 - i] ]

RotateLeft(s, k) ==
    IF s = << >> THEN s
    ELSE [ i \in 1..Len(s) |-> s[((i - 1 + k) % Len(s)) + 1] ]

\* list(dict.fromkeys(s)): the first occurrences, in order
Dedup(s) == SelectIdx(s, [ i \in 1..Len(s) |-> \A j \in 1..(i - 1) : s[j] # s[i] ], 1)

RECURSIVE InsertDesc(_, _, _)
\* the index x put into the list of indices s, descending by keys, behind every
\* index whose key is >= keys[x]
InsertDesc(s, x, keys) ==
    IF s = << >> THEN << x >>
    ELSE IF keys[Head(s)] >= keys[x] THEN << Head(s) >> \o InsertDesc(Tail(s), x, keys)
    ELSE << x >> \o s

RECURSIVE SortedIdx(_, _, _)
SortedIdx(keys, i, acc) ==
    IF i > Len(keys) THEN acc
    ELSE SortedIdx(keys, i + 1, InsertDesc(acc, i, keys))

\* (variant) an ascending sort, reversed: elements with equal keys change places
SortAscReversed(s, keys) ==
    LET idx == SortedIdx(Reverse(keys), 1, << >>)
    IN  [ i \in 1..Len(s) |-> Reverse(s)[idx[i]] ]

\* list.sort(key=..., reverse=True) on s, keys[i] being the key of s[i]:
\* descending, and stable (Python keeps the original order of elements with
\* equal keys, also under reverse=True)
SortDesc(s, keys) ==
    LET idx == SortedIdx(keys, 1, << >>)
    IN  [ i \in 1..Len(s) |-> s[idx[i]] ]

(***************************************************************************)
(* Texts and the substring test.                                           *)
(***************************************************************************)
SubstringPairs ==
    { <<"admin", "administrative">>, <<"admin", "administrator">>,
      <<"advisor", "advisory">>, <<"behavior", "behavioral">>,
      <<"bi", "ability">>, <<"consultant", "consultant,">>,
      <<"css", "htmlcss">>, <<"data", "database">>,
      <<"developer", "developer,">>, <<"html", "htmlcss">>,
      <<"java", "javascript">>, <<"lead", "leader">>,
      <<"lead", "leadership">>, <<"leader", "leadership">>,
      <<"math", "mathematics">>, <<"opq", "opq32">>, <<"remote", "remote,">>,
      <<"sales", "salesperson">>, <<"script", "javascript">>,
      <<"sql", "mysql">>, <<"sql", "postgresql">>, <<"test", "testing">>,
      <<"hour", "hours">>, <<"hour", "hourly">>, <<"hr", "hrs">>, <<"hr", "chrome">> }
PrefixPairs ==
    { <<"admin", "administrative">>, <<"admin", "administrator">>,
      <<"advisor", "advisory">>, <<"behavior", "behavioral">>,
      <<"consultant", "consultant,">>, <<"data", "database">>,
      <<"developer", "developer,">>, <<"html", "htmlcss">>,
      <<"java", "javascript">>, <<"lead", "leader">>,
      <<"lead", "leadership">>, <<"leader", "leadership">>,
      <<"math", "mathematics">>, <<"opq", "opq32">>, <<"remote", "remote,">>,
      <<"sales", "salesperson">>, <<"test", "testing">>,
      <<"hour", "hours">>, <<"hour", "hourly">>, <<"hr", "hrs">> }
SuffixPairs ==
    { <<"css", "htmlcss">>, <<"script", "javascript">>, <<"sql", "mysql">>,
      <<"sql", "postgresql">> }

IsSubWord(a, b) == a = b \/ << a, b >> \in SubstringPairs
IsPrefixWord(a, b) == a = b \/ << a, b >> \in PrefixPairs
IsSuffixWord(a, b) == a = b \/ << a, b >> \in SuffixPairs

\* the phrase p occurs in the text t starting inside word i of t
OccursAt(p, t, i) ==
    IF Len(p) = 1 THEN IsSubWord(p[1], t[i])
    ELSE /\ IsSuffixWord(p[1], t[i])
         /\ \A j \in 2..(Len(p) - 1) : p[j] = t[i + j - 1]
         /\ IsPrefixWord(p[Len(p)], t[i + Len(p) - 1])

\* Python: p in t, for the strings ' '.join(p) and ' '.join(t)
Contains(p, t) == \E i \in 1..(Len(t) - Len(p) + 1) : OccursAt(p, t, i)

\* Python: (x or ''), for a description that may be None
OrEmpty(t) == IF t = NoneText THEN << >> ELSE t

\* Python: (x or 0), for a duration that may be None
OrZero(d) == IF d = NoneInt THEN 0 ELSE d

\* Python: set(text.split())
Words(t) == Range(t)

(***************************************************************************)
(* The tables of preprocess_query.                                         *)
(***************************************************************************)
QUERY_EXPANSIONS ==
    << [key |-> <<"java">>,
        variants |-> << <<"java">>, <<"j2ee">>, <<"j2se">>, <<"jdk">>, <<"jvm">>, <<"spring">>, <<"hibernate">>, <<"core", "java">>, <<"automata">> >>],
       [key |-> <<"python">>,
        variants |-> << <<"python">>, <<"django">>, <<"flask">>, <<"pandas">>, <<"numpy">>, <<"data", "science">> >>],
       [key |-> <<"sql">>,
        variants |-> << <<"sql">>, <<"database">>, <<"mysql">>, <<"postgresql">>, <<"oracle">>, <<"query">>, <<"sql", "server">>, <<"ssas">> >>],
       [key |-> <<"javascript">>,
        variants |-> << <<"javascript">>, <<"javascript">>, <<"java", "script">>, <<"js">>, <<"node">>, <<"react">>, <<"angular">>, <<"vue">>, <<"frontend">> >>],
       [key |-> <<"html">>,
        variants |-> << <<"html">>, <<"css">>, <<"htmlcss">>, <<"web">>, <<"frontend">>, <<"markup">> >>],
       [key |-> <<"css">>,
        variants |-> << <<"css">>, <<"html">>, <<"htmlcss">>, <<"web">>, <<"frontend">>, <<"styling">> >>],
       [key |-> <<"selenium">>,
        variants |-> << <<"selenium">>, <<"automation">>, <<"testing">>, <<"qa">>, <<"web", "automation">>, <<"test", "automation">> >>],
       [key |-> <<"excel">>,
        variants |-> << <<"excel">>, <<"spreadsheet">>, <<"ms", "excel">>, <<"microsoft", "excel">>, <<"excel", "365">> >>],
       [key |-> <<"data", "analyst">>,
        variants |-> << <<"data", "analyst">>, <<"data", "analysis">>, <<"analytics">>, <<"bi">>, <<"business", "intelligence">>, <<"tableau">> >>],
       [key |-> <<"developer">>,
        variants |-> << <<"developer">>, <<"programmer">>, <<"coder">>, <<"software", "engineer">>, <<"engineer">>, <<"technology">> >>],
       [key |-> <<"sales">>,
        variants |-> << <<"sales">>, <<"selling">>, <<"salesperson">>, <<"account", "manager">>, <<"entry", "level", "sales">>, <<"sales", "representative">> >>],
       [key |-> <<"manager">>,
        variants |-> << <<"manager">>, <<"management">>, <<"supervisor">>, <<"lead">>, <<"director">>, <<"marketing", "manager">> >>],
       [key |-> <<"admin">>,
        variants |-> << <<"admin">>, <<"administrative">>, <<"administrator">>, <<"clerical">>, <<"office">>, <<"assistant">>, <<"bank", "administrative">> >>],
       [key |-> <<"leadership">>,
        variants |-> << <<"leadership">>, <<"leader">>, <<"executive">>, <<"coo">>, <<"ceo">>, <<"cfo">>, <<"enterprise", "leadership">> >>],
       [key |-> <<"consultant">>,
        variants |-> << <<"consultant">>, <<"consulting">>, <<"advisory">>, <<"professional">>, <<"advisor">> >>],
       [key |-> <<"qa">>,
        variants |-> << <<"qa">>, <<"quality", "assurance">>, <<"testing">>, <<"test">>, <<"manual", "testing">>, <<"automation", "testing">> >>],
       [key |-> <<"marketing">>,
        variants |-> << <<"marketing">>, <<"digital", "marketing">>, <<"advertising">>, <<"digital", "advertising">>, <<"brand">> >>],
       [key |-> <<"communication">>,
        variants |-> << <<"communication">>, <<"verbal">>, <<"written">>, <<"english">>, <<"language">>, <<"interpersonal">>, <<"business", "communication">> >>],
       [key |-> <<"personality">>,
        variants |-> << <<"personality">>, <<"behavior">>, <<"behavioral">>, <<"traits">>, <<"opq">>, <<"opq32">>, <<"occupational", "personality">> >>],
       [key |-> <<"cognitive">>,
        variants |-> << <<"cognitive">>, <<"reasoning">>, <<"aptitude">>, <<"ability">>, <<"intelligence">>, <<"inductive">>, <<"deductive">> >>],
       [key |-> <<"numerical">>,
        variants |-> << <<"numerical">>, <<"math">>, <<"mathematics">>, <<"quantitative">>, <<"arithmetic">>, <<"calculation">>, <<"verify", "numerical">> >>],
       [key |-> <<"verbal">>,
        variants |-> << <<"verbal">>, <<"language">>, <<"comprehension">>, <<"reading">>, <<"writing">>, <<"verify", "verbal">> >>],
       [key |-> <<"inductive">>,
        variants |-> << <<"inductive">>, <<"inductive", "reasoning">>, <<"pattern", "recognition">>, <<"abstract", "reasoning">> >>],
       [key |-> <<"entry">>,
        variants |-> << <<"entry">>, <<"entry", "level">>, <<"graduate">>, <<"junior">>, <<"fresher">>, <<"new", "graduate">> >>],
       [key |-> <<"senior">>,
        variants |-> << <<"senior">>, <<"experienced">>, <<"advanced">>, <<"professional">>, <<"expert">> >>] >>
role_keywords ==
    << [role |-> <<"developer">>, keywords |-> << <<"developer">>, <<"programmer">>, <<"coder">>, <<"engineer">>, <<"software">> >>],
       [role |-> <<"analyst">>, keywords |-> << <<"analyst">>, <<"data", "analyst">>, <<"business", "analyst">>, <<"data">> >>],
       [role |-> <<"manager">>, keywords |-> << <<"manager">>, <<"supervisor">>, <<"lead">>, <<"director">>, <<"management">> >>],
       [role |-> <<"admin">>, keywords |-> << <<"admin">>, <<"administrative">>, <<"administrator">>, <<"assistant">>, <<"clerical">> >>],
       [role |-> <<"sales">>, keywords |-> << <<"sales">>, <<"salesperson">>, <<"account", "manager">>, <<"selling">> >>],
       [role |-> <<"executive">>, keywords |-> << <<"executive">>, <<"coo">>, <<"ceo">>, <<"cfo">>, <<"leadership">>, <<"senior", "executive">> >>],
       [role |-> <<"consultant">>, keywords |-> << <<"consultant">>, <<"consulting">>, <<"advisor">>, <<"advisory">> >>],
       [role |-> <<"professional">>, keywords |-> << <<"professional">>, <<"specialist">>, <<"expert">> >>] >>

(***************************************************************************)
(* URLs.  A URL is a sequence of tokens: "/" and " " are single            *)
(* characters, a path segment, a host ("https://www.shl.com") and a        *)
(* percent code ("%20") are one token each.                                *)
(***************************************************************************)
Host == "https://www.shl.com"

ProductsUrl(slug) ==
    << Host, "/", "products", "/", "product-catalog", "/", "view", "/", slug, "/" >>

SolutionsUrl(slug) ==
    << Host, "/", "solutions", "/", "products", "/", "product-catalog", "/", "view", "/",
       slug, "/" >>

(***************************************************************************)
(* The catalog (vector DB metadata) and the queries the model serves.       *)
(* duration_matches holds, for each of the nine duration_patterns in       *)
(* order, the groups re.search captures in the query (<< >>: no match).    *)
(***************************************************************************)
Corpus ==
    << [name |-> <<"core", "java", "advanced">>,
        description |-> <<"measures", "knowledge", "of", "java", "programming">>,
        duration |-> 40,
        test_type |-> << "Knowledge & Skills" >>,
        remote_support |-> "Yes",
        url |-> ProductsUrl("core-java-advanced"),
        alternate_urls |-> << SolutionsUrl("core-java-advanced") >>],
       [name |-> <<"entry", "level", "sales">>,
        description |-> <<"solution", "for", "entry", "level", "sales", "roles">>,
        duration |-> 20,
        test_type |-> << "Biodata & Situational Judgement" >>,
        remote_support |-> "Yes",
        url |-> SolutionsUrl("entry-level-sales"),
        alternate_urls |-> << ProductsUrl("entry-level-sales") >>],
       [name |-> <<"opq", "personality">>,
        description |-> <<"occupational", "personality", "questionnaire">>,
        duration |-> 25,
        test_type |-> << "Personality & Behavior" >>,
        remote_support |-> "No",
        url |-> ProductsUrl("opq-personality"),
        alternate_urls |-> << >>],
       [name |-> <<"verify", "numerical", "ability">>,
        description |-> NoneText,
        duration |-> NoneInt,
        test_type |-> << "Ability & Aptitude" >>,
        remote_support |-> "None",
        url |-> ProductsUrl("verify-numerical-ability"),
        alternate_urls |-> << >>] >>

Queries ==
    << (* "Java developer, 40 minutes" *)
       [text |-> <<"java", "developer,", "40", "minutes">>,
        duration_matches |-> << <<40>>, <<40>>, <<>>, <<>>, <<>>, <<>>, <<>>, <<>>, <<>> >>],
       (* "entry level sales role" *)
       [text |-> <<"entry", "level", "sales", "role">>,
        duration_matches |-> << <<>>, <<>>, <<>>, <<>>, <<>>, <<>>, <<>>, <<>>, <<>> >>],
       (* "20 minutes" *)
       [text |-> <<"20", "minutes">>,
        duration_matches |-> << <<20>>, <<20>>, <<>>, <<>>, <<>>, <<>>, <<>>, <<>>, <<>> >>],
       (* "personality test for consultant, remote, about 1 hour" *)
       [text |-> <<"personality", "test", "for", "consultant,", "remote,", "about", "1", "hour">>,
        duration_matches |-> << <<>>, <<>>, <<1>>, <<>>, <<>>, <<>>, <<1>>, <<>>, <<>> >>],
       (* "senior analyst numerical reasoning 30-40 minutes" *)
       [text |-> <<"senior", "analyst", "numerical", "reasoning", "30-40", "minutes">>,
        duration_matches |-> << <<40>>, <<40>>, <<>>, <<>>, <<>>, <<>>, <<>>, <<30, 40>>, <<>> >>] >>

(***************************************************************************)
(* Query understanding: preprocess_query and expand_query.                 *)
(***************************************************************************)
MaxExpandSkills == 8
MaxExpandRoles == 5
MaxExpandJobKeywords == 3

\* list(set(xs)): the distinct elements in the order of the process's string
\* hashing, which PYTHONHASHSEED randomises per process.  seed 0 is the order of
\* first occurrence, seed 1 that order started from its middle, seed k >= 2 a
\* rotation by k - 1.
ListOfSet(xs, seed) ==
    LET d == Dedup(xs)
    IN  IF seed = 0 THEN d
        ELSE IF seed = 1 THEN RotateLeft(d, (Len(d) + 1) \div 2)
        ELSE RotateLeft(d, seed - 1)

\* the first duration pattern (of the nine, in order) that matches, or 0
FirstMatch(ms) ==
    IF \A i \in DOMAIN ms : ms[i] = << >> THEN 0
    ELSE CHOOSE i \in DOMAIN ms : ms[i] # << >> /\ \A j \in 1..(i - 1) : ms[j] = << >>

ExtractDuration(q) ==
    LET i == FirstMatch(q.duration_matches)
        g == q.duration_matches[i]
        d == IF Len(g) = 2 THEN g[2] ELSE g[1]
    IN  IF i = 0 THEN NoneInt
        ELSE IF Contains(<< "hour" >>, q.text) \/ Contains(<< "hr" >>, q.text)
             THEN d * 60
             ELSE d

\* skills.extend(QUERY_EXPANSIONS[skill]) for every key one of whose variants
\* occurs in the query
ExtractSkills(text) ==
    Flatten([ i \in DOMAIN QUERY_EXPANSIONS |->
                IF \E v \in Range(QUERY_EXPANSIONS[i].variants) : Contains(v, text)
                THEN QUERY_EXPANSIONS[i].variants
                ELSE << >> ])

ExtractRoles(text) ==
    Flatten([ i \in DOMAIN role_keywords |->
                IF \E k \in Range(role_keywords[i].keywords) : Contains(k, text)
                THEN << role_keywords[i].role >>
                ELSE << >> ])

AnyIn(ws, text) == \E w \in ws : Contains(<< w >>, text)

ExtractTestTypes(text) ==
       (IF AnyIn({"personality", "behavior", "behavioral"}, text)
        THEN << "Personality & Behavior" >> ELSE << >>)
    \o (IF AnyIn({"cognitive", "aptitude", "reasoning"}, text)
        THEN << "Ability & Aptitude" >> ELSE << >>)
    \o (IF AnyIn({"knowledge", "skill", "technical"}, text)
        THEN << "Knowledge & Skills" >> ELSE << >>)
    \o (IF AnyIn({"communication", "verbal", "english"}, text)
        THEN << "Ability & Aptitude" >> ELSE << >>)
    \o (IF AnyIn({"numerical", "math", "quantitative"}, text)
        THEN << "Ability & Aptitude" >> ELSE << >>)
    \o (IF AnyIn({"situational", "judgement", "judgment"}, text)
        THEN << "Biodata & Situational Judgement" >> ELSE << >>)
    \o (IF AnyIn({"consultant", "professional"}, text)
        THEN << "Personality & Behavior", "Ability & Aptitude", "Competencies" >>
        ELSE << >>)

preprocess_query(q, seed) ==
    [ original_query |-> q.text,
      duration       |-> ExtractDuration(q),
      skills         |-> ListOfSet(ExtractSkills(q.text), seed),
      roles          |-> ListOfSet(ExtractRoles(q.text), seed),
      test_types     |-> ExtractTestTypes(q.text) ]

\* the elements of parts that do not occur in the query, in order
NotInQuery(parts, text) ==
    SelectIdx(parts, [ i \in 1..Len(parts) |-> ~Contains(parts[i], text) ], 1)

JobKeywords(text) ==
       (IF AnyIn({"entry", "graduate"}, text)
        THEN << << "entry", "level" >>, << "junior" >>, << "graduate" >> >> ELSE << >>)
    \o (IF AnyIn({"senior", "experienced"}, text)
        THEN << << "senior" >>, << "experienced" >>, << "professional" >> >> ELSE << >>)
    \o (IF AnyIn({"manager"}, text) THEN << << "management" >> >> ELSE << >>)
    \o (IF AnyIn({"analyst"}, text) THEN << << "data", "analysis" >> >> ELSE << >>)

\* ' '.join(expanded_parts), as a text
expand_query(query_info) ==
    LET original == query_info.original_query
    IN  original
        \o Flatten(NotInQuery(Take(query_info.skills, MaxExpandSkills), original))
        \o Flatten(NotInQuery(Take(query_info.roles, MaxExpandRoles), original))
        \o Flatten(NotInQuery(Take(JobKeywords(original), MaxExpandJobKeywords), original))

(***************************************************************************)
(* Candidates.  A candidate is the per-query dict the retrievers build     *)
(* from a metadata record; a key a dict lacks holds NoneInt.               *)
(***************************************************************************)
\* Python: cand.get(key, default), for a numeric key
GetOr(v, default) == IF v = NoneInt THEN default ELSE v

\* Python: meta.get('remote_support', 'No') and 'alternate_urls', 'test_type'
\* are present in every metadata record initialize_vector_db writes
NoScores ==
    [ semantic_score |-> NoneInt, keyword_score |-> NoneInt,
      combined_score |-> NoneInt, distance |-> NoneInt,
      rerank_score |-> NoneInt, xgboost_score |-> NoneInt, score |-> NoneInt,
      ensemble_score |-> [ weighted |-> 0, rrf |-> 0 ], rrf_score |-> NoneInt ]

MetaFields(meta) ==
    [ url |-> meta.url, alternate_urls |-> meta.alternate_urls,
      name |-> meta.name, description |-> meta.description,
      remote_support |-> meta.remote_support, test_type |-> meta.test_type ]

\* r1 @@ r2 for records: the fields of both
Candidate(meta, duration, scores) ==
    MetaFields(meta) @@ [ duration |-> duration ] @@ scores @@ NoScores

(***************************************************************************)
(* hybrid_retrieve: vector search, keyword scores, sort, truncate.         *)
(* Weights in units of 1/4000.                                             *)
(***************************************************************************)
SkillNameBoost == 1600
SkillDescBoost == 400
RoleNameBoost == 1200
RoleDescBoost == 400
ExactPhraseBoost == 800
TestTypeBoost == 800
CommonWordBoost == 600
SearchK == 150
HybridTopK == 100

StopWords == { "the", "a", "an", "for", "and", "or", "to", "in", "of", "is", "are" }

\* the number of positions of the list tt whose element is in the list types
CountIn(tt, types) == Cardinality({ i \in DOMAIN tt : tt[i] \in Range(types) })

KeywordScore(query, query_info, meta) ==
    LET name_lower == meta.name
        desc_lower == OrEmpty(meta.description)
        skills == Range(query_info.skills)
        roles == Range(query_info.roles)
        common_words == Words(query) \cap (Words(name_lower) \ StopWords)
    IN    SkillNameBoost * Cardinality({ s \in skills : Contains(s, name_lower) })
        + SkillDescBoost * Cardinality({ s \in skills :
                               ~Contains(s, name_lower) /\ Contains(s, desc_lower) })
        + RoleNameBoost * Cardinality({ r \in roles : Contains(r, name_lower) })
        + RoleDescBoost * Cardinality({ r \in roles :
                               ~Contains(r, name_lower) /\ Contains(r, desc_lower) })
        + ExactPhraseBoost * Cardinality({ s \in skills :
                               Contains(s, query) /\ Contains(s, name_lower) })
        + TestTypeBoost * CountIn(query_info.test_types, meta.test_type)
        + CommonWordBoost * Cardinality(common_words)

\* index.search(query_vec, search_k): the ids of the search_k most similar
\* vectors, most similar first (equal similarity: lower id first); sim[i] is the
\* inner product of the query with vector i
Search(sim, search_k) ==
    Take(SortDesc([ i \in 1..Len(sim) |-> i ], sim), search_k)

HybridCandidate(query, query_info, meta, semantic_score) ==
    LET keyword_score == KeywordScore(query, query_info, meta)
        combined_score == semantic_score + keyword_score
    IN  Candidate(meta, OrZero(meta.duration),
                  [ semantic_score |-> semantic_score,
                    keyword_score |-> keyword_score,
                    combined_score |-> combined_score,
                    distance |-> combined_score ])

CombinedScores(cands) == [ i \in 1..Len(cands) |-> cands[i].combined_score ]

\* embedding: << >> when get_query_embedding returned None, else the similarity
\* of the query embedding to every vector of the index
hybrid_retrieve(query, query_info, db, embedding, top_k) ==
    IF embedding = << >> THEN << >>
    ELSE
      LET indices == Search(embedding, Min(SearchK, Len(db.index)))
          inMeta == SelectIdx(indices,
                        [ i \in 1..Len(indices) |-> indices[i] <= Len(db.metadata) ], 1)
          candidates == [ i \in 1..Len(inMeta) |->
                            HybridCandidate(query, query_info, db.metadata[inMeta[i]],
                                            embedding[inMeta[i]]) ]
      IN  Take(SortDesc(candidates, CombinedScores(candidates)), top_k)

(***************************************************************************)
(* filter_candidates: the soft filter.                                     *)
(***************************************************************************)
AnyTypeIn(tt, types) == \E i \in DOMAIN tt : tt[i] \in Range(types)

\* cand_duration > query_info['duration'] * 1.3
OverDuration(cand_duration, query_duration) == 10 * cand_duration > 13 * query_duration

DurationPenalty(score) == (score * 9) \div 10

TestTypePenalty(score) == (score * 95) \div 100

FilterOne(cand, query_info) ==
    LET cand_duration == OrZero(cand.duration)
        s1 == IF /\ OrZero(query_info.duration) # 0
                 /\ cand_duration > 0
                 /\ OverDuration(cand_duration, query_info.duration)
              THEN DurationPenalty(cand.combined_score)
              ELSE cand.combined_score
        s2 == IF /\ query_info.test_types # << >>
                 /\ ~AnyTypeIn(query_info.test_types, cand.test_type)
              THEN TestTypePenalty(s1)
              ELSE s1
    IN  [ cand EXCEPT !.combined_score = s2 ]

\* (variant) a hard filter: candidates over the duration tolerance are dropped
filter_candidates_hard(candidates, query_info) ==
    SelectIdx([ i \in 1..Len(candidates) |-> FilterOne(candidates[i], query_info) ],
              [ i \in 1..Len(candidates) |->
                  ~(/\ OrZero(query_info.duration) # 0
                    /\ OrZero(candidates[i].duration) > 0
                    /\ OverDuration(candidates[i].duration, query_info.duration)) ], 1)

filter_candidates(candidates, query_info) ==
    [ i \in 1..Len(candidates) |-> FilterOne(candidates[i], query_info) ]

(***************************************************************************)
(* rerank_rule_based.  Bonuses in units of 1/4000.                         *)
(***************************************************************************)
RuleSkillBonus == 1200
RuleRoleBonus == 1000
RuleDurationBonus == 600
RuleTestTypeBonus == 400
RuleEntryBonus == 400
RuleSeniorBonus == 400
RuleRemoteBonus == 200

\* cand_dur <= query_dur * 1.2
WithinDuration(cand_dur, query_dur) == 10 * cand_dur <= 12 * query_dur

\* Python: cand.get(key, default); a dict without the key is a record without
\* the field
Get(cand, key, default) == IF key \in DOMAIN cand THEN cand[key] ELSE default

\* Python: "pref_type in meta_types" with meta_types None, a TypeError; the loop
\* body runs only when the query has test types
RuleBasedRaises(cand, query_info) ==
    /\ Get(cand, "test_type", << >>) = NoneText
    /\ query_info.test_types # << >>

RerankScore(cand, query_info) ==
    LET query_lower == query_info.original_query
        name_lower == cand.name
    IN    RuleSkillBonus * Cardinality({ i \in DOMAIN query_info.skills :
                               Contains(query_info.skills[i], name_lower) })
        + RuleRoleBonus * Cardinality({ i \in DOMAIN query_info.roles :
                               Contains(query_info.roles[i], name_lower) })
        + (IF /\ OrZero(query_info.duration) # 0
              /\ OrZero(Get(cand, "duration", NoneInt)) # 0
              /\ WithinDuration(cand.duration, query_info.duration)
           THEN RuleDurationBonus ELSE 0)
        + RuleTestTypeBonus * CountIn(query_info.test_types, Get(cand, "test_type", << >>))
        + (IF /\ AnyIn({"entry", "graduate", "junior", "0-2", "0-3"}, query_lower)
              /\ AnyIn({"entry", "junior", "level"}, name_lower)
           THEN RuleEntryBonus ELSE 0)
        + (IF /\ AnyIn({"senior", "experienced", "5+", "years"}, query_lower)
              /\ AnyIn({"senior", "advanced", "professional"}, name_lower)
           THEN RuleSeniorBonus ELSE 0)
        + (IF /\ Contains(<< "remote" >>, query_lower)
              /\ Get(cand, "remote_support", "None") = "Yes"
           THEN RuleRemoteBonus ELSE 0)

RuleScored(cand, query_info) ==
    LET rerank_score == RerankScore(cand, query_info)
    IN  [ combined_score |-> cand.combined_score + rerank_score,
          rerank_score |-> rerank_score ] @@ cand

rerank_rule_based(candidates, query_info) ==
    LET scored == [ i \in 1..Len(candidates) |-> RuleScored(candidates[i], query_info) ]
    IN  SortDesc(scored, CombinedScores(scored))

(***************************************************************************)
(* rerank_with_xgboost.  scores[i] is predict_proba's positive-class       *)
(* probability for candidates[i], in hundredths.                           *)
(***************************************************************************)
rerank_with_xgboost(candidates, available, scores, top_k) ==
    IF ~available THEN Take(candidates, top_k)
    ELSE IF candidates = << >> THEN << >>
    ELSE
      LET scored == [ i \in 1..Len(candidates) |->
                        [ candidates[i] EXCEPT !.xgboost_score = scores[i] ] ]
      IN  Take(SortDesc(scored, [ i \in 1..Len(scored) |->
                                    GetOr(scored[i].xgboost_score, 0) ]), top_k)

(***************************************************************************)
(* llm_rerank and its fallback rule_based_rerank (llm_reranker.py).        *)
(* ranked_urls is the URL list parsed from the model's answer, or << >>    *)
(* when every model call failed or no usable list came back.               *)
(***************************************************************************)
LlmSkillBonus == 800
LlmRoleBonus == 600

\* Python: needle in hay, on URL strings
UrlContains(needle, hay) ==
    \E i \in 1..(Len(hay) - Len(needle) + 1) :
        SubSeq(hay, i, i + Len(needle) - 1) = needle

RECURSIVE RStripSlash(_)
\* Python: s.rstrip('/')
RStripSlash(s) ==
    IF s # << >> /\ s[Len(s)] = "/" THEN RStripSlash(SubSeq(s, 1, Len(s) - 1)) ELSE s

ViewSep == << "/", "view", "/" >>

\* Python: s.split('/view/')[-1]
AfterLastView(s) ==
    IF ~UrlContains(ViewSep, s) THEN s
    ELSE LET i == CHOOSE k \in 1..(Len(s) - 2) :
                    /\ SubSeq(s, k, k + 2) = ViewSep
                    /\ \A m \in (k + 1)..(Len(s) - 2) : SubSeq(s, m, m + 2) # ViewSep
         IN  SubSeq(s, i + 3, Len(s))

\* a dict as the list of its items in insertion order; d[key] = val keeps the
\* position of a key that is already there
DictHas(d, k) == \E i \in DOMAIN d : d[i].key = k

DictSet(d, k, v) ==
    IF DictHas(d, k)
    THEN [ i \in DOMAIN d |-> IF d[i].key = k THEN [ key |-> k, val |-> v ] ELSE d[i] ]
    ELSE Append(d, [ key |-> k, val |-> v ])

DictGet(d, k) == (CHOOSE i \in DOMAIN d : d[i].key = k)

RECURSIVE PrimaryUrls(_, _, _)
\* {cand['url']: cand for cand in candidates}; the value is the candidate's position
PrimaryUrls(candidates, i, d) ==
    IF i > Len(candidates) THEN d
    ELSE PrimaryUrls(candidates, i + 1, DictSet(d, candidates[i].url, i))

RECURSIVE AddAlternates(_, _, _)
AddAlternates(alts, pos, d) ==
    IF alts = << >> THEN d
    ELSE AddAlternates(Tail(alts), pos,
                       IF DictHas(d, Head(alts)) THEN d ELSE DictSet(d, Head(alts), pos))

RECURSIVE AlternateUrls(_, _, _)
AlternateUrls(candidates, i, d) ==
    IF i > Len(candidates) THEN d
    ELSE AlternateUrls(candidates, i + 1,
                       AddAlternates(candidates[i].alternate_urls, i, d))

url_to_candidate(candidates) ==
    AlternateUrls(candidates, 1, PrimaryUrls(candidates, 1, << >>))

\* the first item of the dict whose key contains url_slug and is not seen, or 0
PartialMatch(d, url_slug, seen) ==
    LET hits == { i \in DOMAIN d : UrlContains(url_slug, d[i].key) /\ d[i].key \notin seen }
    IN  IF hits = {} THEN 0 ELSE CHOOSE i \in hits : \A j \in hits : i <= j

RECURSIVE MapRanked(_, _, _, _)
\* the loop over ranked_urls: st = [ranked |-> positions appended, seen |-> seen_urls]
MapRanked(ranked_urls, i, d, st) ==
    IF i > Len(ranked_urls) THEN st
    ELSE
      LET url == ranked_urls[i]
      IN  IF DictHas(d, url) /\ url \notin st.seen
          THEN MapRanked(ranked_urls, i + 1, d,
                         [ ranked |-> Append(st.ranked, d[DictGet(d, url)].val),
                           seen |-> st.seen \cup { url } ])
          ELSE
            LET url_slug == IF UrlContains(ViewSep, url)
                            THEN RStripSlash(AfterLastView(url)) ELSE url
                hit == PartialMatch(d, url_slug, st.seen)
            IN  MapRanked(ranked_urls, i + 1, d,
                          IF hit = 0 THEN st
                          ELSE [ ranked |-> Append(st.ranked, d[hit].val),
                                 seen |-> st.seen \cup { d[hit].key } ])

RECURSIVE FillRemaining(_, _, _, _)
\* "Fill remaining slots with original order"
FillRemaining(candidates, i, st, top_k) ==
    IF i > Len(candidates) THEN st
    ELSE FillRemaining(candidates, i + 1,
                       IF candidates[i].url \notin st.seen /\ Len(st.ranked) < top_k
                       THEN [ ranked |-> Append(st.ranked, i),
                              seen |-> st.seen \cup { candidates[i].url } ]
                       ELSE st,
                       top_k)

\* query: the text of the raw query
rule_based_rerank(query, candidates, top_k) ==
    LET skills == { k \in {"java", "python", "sql", "javascript", "excel", "data", "analyst"} :
                      Contains(<< k >>, query) }
        roles == { k \in {"developer", "analyst", "manager", "admin", "sales", "executive"} :
                      Contains(<< k >>, query) }
        Score(cand) ==
              GetOr(cand.combined_score, 0)
            + LlmSkillBonus * Cardinality({ k \in skills : Contains(<< k >>, cand.name) })
            + LlmRoleBonus * Cardinality({ k \in roles : Contains(<< k >>, cand.name) })
        scored == [ i \in 1..Len(candidates) |->
                      [ candidates[i] EXCEPT !.rerank_score = Score(candidates[i]) ] ]
    IN  Take(SortDesc(scored, [ i \in 1..Len(scored) |-> GetOr(scored[i].rerank_score, 0) ]),
             top_k)

llm_rerank(query, candidates, ranked_urls, top_k) ==
    IF candidates = << >> THEN << >>
    ELSE IF ranked_urls # << >>
    THEN LET d == url_to_candidate(candidates)
             mapped == MapRanked(ranked_urls, 1, d, [ ranked |-> << >>, seen |-> {} ])
             filled == FillRemaining(candidates, 1, mapped, top_k)
         IN  Take([ i \in 1..Len(filled.ranked) |-> candidates[filled.ranked[i]] ], top_k)
    ELSE rule_based_rerank(query, candidates, top_k)

(***************************************************************************)
(* url_utils.py on URLs as token sequences.                                *)
(***************************************************************************)
\* str.lower() of a token, for the tokens that have upper-case letters
LowerPairs ==
    { << "%2D", "%2d" >>, << "%2F", "%2f" >>, << "Foo", "foo" >>, << "View", "view" >>,
      << "Products", "products" >> }

LowerToken(t) == IF \E p \in LowerPairs : p[1] = t
                 THEN (CHOOSE p \in LowerPairs : p[1] = t)[2] ELSE t

\* (variant) no lower-casing
LowerKeep(url) == url

Lower(url) == [ i \in DOMAIN url |-> LowerToken(url[i]) ]

\* the four replace() calls that decode a slug
DecodeToken(t) ==
    CASE t = "%28" -> "("
      [] t = "%29" -> ")"
      [] t = "%20" -> " "
      [] t = "%2d" -> "-"
      [] OTHER -> t

RECURSIVE LStrip(_)
LStrip(s) == IF s # << >> /\ Head(s) = " " THEN LStrip(Tail(s)) ELSE s

RECURSIVE RStrip(_)
RStrip(s) == IF s # << >> /\ s[Len(s)] = " " THEN RStrip(SubSeq(s, 1, Len(s) - 1)) ELSE s

\* Python: s.strip(); a blank is the token " "
Strip(s) == LStrip(RStrip(s))

normalize_url_to_slug(url) ==
    IF url = << >> THEN << >>
    ELSE LET u == RStripSlash(Strip(Lower(url)))
         IN  IF UrlContains(ViewSep, u)
             THEN LET slug == RStripSlash(AfterLastView(u))
                  IN  [ i \in DOMAIN slug |-> DecodeToken(slug[i]) ]
             ELSE u

SolutionsPath ==
    << "/", "solutions", "/", "products", "/", "product-catalog", "/", "view", "/" >>

ProductsPath == << "/", "products", "/", "product-catalog", "/", "view", "/" >>

RECURSIVE Replace(_, _, _)
\* Python: s.replace(old, new)
Replace(url, old, new) ==
    IF Len(url) < Len(old) THEN url
    ELSE IF SubSeq(url, 1, Len(old)) = old
    THEN new \o Replace(SubSeq(url, Len(old) + 1, Len(url)), old, new)
    ELSE << Head(url) >> \o Replace(Tail(url), old, new)

generate_alternate_url(url) ==
    IF url = << >> THEN url
    ELSE IF UrlContains(SolutionsPath, Lower(url)) THEN Replace(url, SolutionsPath, ProductsPath)
    ELSE IF UrlContains(ProductsPath, Lower(url)) THEN Replace(url, ProductsPath, SolutionsPath)
    ELSE url

\* (variant) the generated variant is added as it is, not as its slug
get_all_url_variants_raw(url, alternate_urls) ==
    { normalize_url_to_slug(url) }
    \cup { normalize_url_to_slug(alternate_urls[i]) : i \in DOMAIN alternate_urls }
    \cup (IF generate_alternate_url(url) # url THEN { generate_alternate_url(url) } ELSE {})

get_all_url_variants(url, alternate_urls) ==
    { normalize_url_to_slug(url) }
    \cup { normalize_url_to_slug(alternate_urls[i]) : i \in DOMAIN alternate_urls }
    \cup (IF generate_alternate_url(url) # url
          THEN { normalize_url_to_slug(generate_alternate_url(url)) } ELSE {})

urls_match(url1, url2, alternate_urls1, alternate_urls2) ==
    get_all_url_variants(url1, alternate_urls1)
        \cap get_all_url_variants(url2, alternate_urls2) # {}

(***************************************************************************)
(* compute_recall_at_k (notebooks/evaluate.py).  A recall is kept exactly, *)
(* in units of 1 / RecallUnit.                                             *)
(***************************************************************************)
RecallUnit == 12

\* normalized_relevant: the slugs of the relevant URLs
NormalizedRelevant(relevant_urls) == { normalize_url_to_slug(u) : u \in relevant_urls }

\* (variant) the recommended slugs are kept per item, a list rather than a set
compute_recall_at_k_per_item(relevant_urls, recommended_assessments, k) ==
    IF relevant_urls = {} THEN 0
    ELSE
      LET normalized_relevant == NormalizedRelevant(relevant_urls)
          top == Take(recommended_assessments, k)
          hits == { h \in (DOMAIN top) \X normalized_relevant :
                      h[2] \in get_all_url_variants(top[h[1]].url, top[h[1]].alternate_urls) }
      IN  (Cardinality(hits) * RecallUnit) \div Cardinality(normalized_relevant)

compute_recall_at_k(relevant_urls, recommended_assessments, k) ==
    IF relevant_urls = {} THEN 0
    ELSE
      LET normalized_relevant == NormalizedRelevant(relevant_urls)
          top == Take(recommended_assessments, k)
          normalized_recommended ==
              UNION { get_all_url_variants(top[i].url, top[i].alternate_urls) :
                        i \in DOMAIN top }
          relevant_found == Cardinality(normalized_recommended \cap normalized_relevant)
      IN  (relevant_found * RecallUnit) \div Cardinality(normalized_relevant)

(***************************************************************************)
(* initialize_vector_db: what a build computes (embeddings.py).            *)
(* An embedding is a non-empty sequence; << >> stands for None.            *)
(***************************************************************************)
\* the vector stored for the failed embedding of a document: [0.0] * 768
ZeroVector == << 0 >>

\* the embedding Gemini returns for the text of catalogue record d
DocVector(d) == << d >>

\* the metadata record a build stores for an assessment
BuildMetadata(assessment) ==
    [ url |-> assessment.url,
      alternate_urls |-> assessment.alternate_urls,
      name |-> assessment.name,
      description |-> OrEmpty(assessment.description),
      duration |-> OrZero(assessment.duration),
      remote_support |-> assessment.remote_support,
      test_type |-> assessment.test_type ]

\* (variant) a failed embedding is kept as None
EmbeddingsNone(assessments, failed) ==
    [ i \in 1..Len(assessments) |->
        IF i \in failed THEN << >> ELSE DocVector(assessments[i]) ]

\* the embeddings list after the batch loop; failed: the positions whose
\* get_embedding call returned None
Embeddings(assessments, failed) ==
    [ i \in 1..Len(assessments) |->
        IF i \in failed THEN ZeroVector ELSE DocVector(assessments[i]) ]

\* valid_indices, as a keep-flag per position
ValidIndices(embeddings) == [ i \in 1..Len(embeddings) |-> embeddings[i] # << >> ]

\* what a build holds when it starts writing: None (<< >> index) if nothing to write
BuildArtifacts(assessments, failed) ==
    LET embeddings == Embeddings(assessments, failed)
        metadatas == [ i \in 1..Len(assessments) |-> BuildMetadata(Corpus[assessments[i]]) ]
        valid == ValidIndices(embeddings)
    IN  [ index |-> SelectIdx(embeddings, valid, 1),
          metadata |-> SelectIdx(metadatas, valid, 1) ]

\* the database the pipeline is queried on: a completed build of the catalogue
VectorDb == BuildArtifacts([ i \in 1..Len(Corpus) |-> i ], {})

(***************************************************************************)
(* Score writes and the records they land on.  A strategy appends a dict   *)
(* literal per hit, a new object; a write "cand[key] = value" changes the  *)
(* metadata of the vector DB only if cand is one of its records.           *)
(***************************************************************************)
ScoreFields ==
    { "semantic_score", "keyword_score", "combined_score", "distance", "rerank_score",
      "xgboost_score", "score", "ensemble_score", "rrf_score" }

\* (variant) the candidate is the metadata record with its URL
CorpusRecordOfShared(cand, db) ==
    IF \E i \in DOMAIN db.metadata : db.metadata[i].url = cand.url
    THEN CHOOSE i \in DOMAIN db.metadata : db.metadata[i].url = cand.url
    ELSE 0

\* the position in db.metadata of the record the candidate object is, 0 if none
CorpusRecordOf(cand, db) == 0

\* the score fields a candidate carries
Scores(cand) == [ k \in DOMAIN cand \cap ScoreFields |-> cand[k] ]

\* db after the score writes on the candidates of the list
WriteThrough(db, list) ==
    [ db EXCEPT !.metadata =
        [ i \in DOMAIN db.metadata |->
            IF \E j \in DOMAIN list : CorpusRecordOf(list[j], db) = i
            THEN Scores(list[CHOOSE j \in DOMAIN list : CorpusRecordOf(list[j], db) = i])
                    @@ db.metadata[i]
            ELSE db.metadata[i] ] ]

(***************************************************************************)
(* ensemble_retrieve: the fusion of the strategy result lists.             *)
(* An ensemble_score is kept exactly, as its two terms:                    *)
(*   weighted / 400000  +  rrf / (10 * RrfDen)                             *)
(***************************************************************************)
MaxListLen == 2
RrfK == 60
NumStrategies == 4

RECURSIVE Product(_, _)
Product(lo, hi) == IF lo > hi THEN 1 ELSE lo * Product(lo + 1, hi)

RECURSIVE GCD(_, _)
GCD(a, b) == IF b = 0 THEN a ELSE GCD(b, a % b)

\* a common denominator of 1/(60 + rank) for every rank a list can give
RrfDen == Product(RrfK + 1, RrfK + MaxListLen)

RECURSIVE SumSeq(_)
SumSeq(xs) == IF xs = << >> THEN 0 ELSE Head(xs) + SumSeq(Tail(xs))

\* sum(1.0 / (60 + rank) for rank in ranks), in units of 1/RrfDen
RrfScore(ranks) == SumSeq([ i \in DOMAIN ranks |-> RrfDen \div (RrfK + ranks[i]) ])

\* (variant) the two first contributed scores, unsorted
WeightedScoreUnsorted(scores) ==
    IF Len(scores) >= 2 THEN 7 * scores[1] + 3 * scores[2]
    ELSE IF Len(scores) = 1 THEN 10 * scores[1]
    ELSE 0

\* scores_sorted[0] * 0.7 + scores_sorted[1] * 0.3, in units of 1/40000
WeightedScore(scores) ==
    LET scores_sorted == SortDesc(scores, scores)
    IN  IF Len(scores_sorted) >= 2 THEN 7 * scores_sorted[1] + 3 * scores_sorted[2]
        ELSE IF Len(scores_sorted) = 1 THEN 10 * scores_sorted[1]
        ELSE 0

\* final_score = ensemble_score * 0.7 + rrf_score * 0.3
FinalScore(scores, ranks) ==
    [ weighted |-> 7 * WeightedScore(scores), rrf |-> 3 * RrfScore(ranks) ]

\* x >= y for two ensemble scores: (xw - yw) / 400000 >= (yr - xr) / (10 * RrfDen);
\* the rrf terms differ by less than RrfSpan / 400000
RrfSpan == (40000 * 3 * NumStrategies) \div (RrfK + 1) + 1

ScoreGeq(x, y) ==
    LET d == x.weighted - y.weighted
        g == GCD(RrfDen, 40000)
    IN  IF d >= RrfSpan THEN TRUE
        ELSE IF d <= 0 - RrfSpan THEN FALSE
        ELSE d * (RrfDen \div g) >= (40000 \div g) * (y.rrf - x.rrf)

\* (variant) the candidates are collected in a list: nothing is merged
CollectNoMerge(results, scores, i, cs, replace) ==
    cs \o [ k \in 1..Len(results) |->
              [ url |-> results[k].url, candidate |-> results[k],
                scores |-> << scores[k] >>, ranks |-> << k >> ] ]

\* candidate_scores: the dict as its items in insertion order
RECURSIVE Collect(_, _, _, _, _)
\* one "for rank, cand in enumerate(results)" loop; replace: the loop sets
\* 'candidate' for a URL that is already there
Collect(results, scores, i, cs, replace) ==
    IF i > Len(results) THEN cs
    ELSE
      LET cand == results[i]
          at == { k \in DOMAIN cs : cs[k].url = cand.url }
          next ==
            IF at = {}
            THEN Append(cs, [ url |-> cand.url, candidate |-> cand,
                              scores |-> << scores[i] >>, ranks |-> << i >> ])
            ELSE [ k \in DOMAIN cs |->
                     IF k \in at
                     THEN [ url |-> cs[k].url,
                            candidate |-> IF replace THEN cand ELSE cs[k].candidate,
                            scores |-> Append(cs[k].scores, scores[i]),
                            ranks |-> Append(cs[k].ranks, i) ]
                     ELSE cs[k] ]
      IN  Collect(results, scores, i + 1, next, replace)

\* (variant) the other strategies only add to what the advanced strategy found
CandidateScoresNeedsAdvanced(advanced, st, semantic, keyword) ==
    IF advanced = << >> THEN << >>
    ELSE Collect(keyword,
                 [ i \in DOMAIN keyword |-> GetOr(keyword[i].keyword_score, 0) ], 1,
                 Collect(semantic,
                         [ i \in DOMAIN semantic |-> GetOr(semantic[i].distance, 0) ], 1,
                         Collect(st,
                                 [ i \in DOMAIN st |->
                                     GetOr(st[i].score, GetOr(st[i].semantic_score, 0)) ], 1,
                                 Collect(advanced,
                                         [ i \in DOMAIN advanced |->
                                             GetOr(advanced[i].combined_score, 0) ],
                                         1, << >>, TRUE),
                                 FALSE),
                         FALSE),
                 FALSE)

CandidateScores(advanced, st, semantic, keyword) ==
    LET c1 == Collect(advanced,
                      [ i \in DOMAIN advanced |-> GetOr(advanced[i].combined_score, 0) ],
                      1, << >>, TRUE)
        c2 == Collect(st,
                      [ i \in DOMAIN st |-> GetOr(st[i].score, GetOr(st[i].semantic_score, 0)) ],
                      1, c1, FALSE)
        c3 == Collect(semantic,
                      [ i \in DOMAIN semantic |-> GetOr(semantic[i].distance, 0) ],
                      1, c2, FALSE)
    IN  Collect(keyword,
                [ i \in DOMAIN keyword |-> GetOr(keyword[i].keyword_score, 0) ],
                1, c3, FALSE)

\* the loop over candidate_scores.items()
Scored(cs) ==
    [ k \in DOMAIN cs |->
        [ cs[k].candidate EXCEPT !.ensemble_score = FinalScore(cs[k].scores, cs[k].ranks),
                                 !.rrf_score = RrfScore(cs[k].ranks) ] ]

\* sort keys that order ensemble scores as ScoreGeq does
EnsembleKeys(cands) ==
    [ i \in DOMAIN cands |->
        Cardinality({ j \in DOMAIN cands :
                        ScoreGeq(cands[i].ensemble_score, cands[j].ensemble_score) }) ]

\* ensemble_candidates after the sort
Fuse(cs) == SortDesc(Scored(cs), EnsembleKeys(Scored(cs)))

(***************************************************************************)
(* retrieve_advanced as a state machine.                                   *)
(***************************************************************************)
MaxTopK == 2
MaxHashSeed == 1
MaxLlmUrls == 1

\* inner products of the query embedding with a document vector (units 1/4000)
SemLevels == { 0 - 4000, 0, 4000 }
\* predict_proba outputs (units 1/100)
XgbLevels == { 20, 80 }

\* what loading and running the learned reranker can do
XgbModes == { "not_installed", "absent", "corrupt", "predict_raises", "ok" }

\* the URL strings a language model may answer with for a pool
AnswerUrls(pool) ==
    UNION { { pool[i].url } \cup Range(pool[i].alternate_urls) : i \in DOMAIN pool }

Answers(pool) ==
    UNION { [ 1..n -> AnswerUrls(pool) ] : n \in 1..MaxLlmUrls }

VARIABLES
    machine,             \* which entry point this behaviour runs
    pc,                  \* position in the entry point
    query,               \* the raw query (an element of Queries)
    top_k,
    use_llm_rerank,
    llm_mode,            \* what the language-model reranker did on this call
    llm_answer,          \* ranked_urls of the language model, << >> if none
    result,              \* the returned list
    outcome,             \* "returned" or "raised"
    vector_db,           \* the index and metadata the process holds in memory
    \* retrieve_advanced
    use_xgboost_rerank,
    query_info,          \* preprocess_query's result
    expanded_query,      \* expand_query's result
    embedding_ok,        \* whether get_query_embedding returned a vector
    candidates,          \* hybrid_retrieve's result, as returned
    filtered,            \* filter_candidates' result
    xgb_mode,            \* what the learned reranker did on this call
    reranked,            \* the list step 5 produced
    \* initialize_vector_db and get_vector_db
    index_file,          \* data/faiss_index.bin
    metadata_file,       \* data/faiss_metadata.pkl
    builder,             \* the process running initialize_vector_db
    loader,              \* the process running get_vector_db
    builds,              \* builds started so far
    \* ensemble_retrieve
    include_st,
    failed_strategies,   \* the strategies (1..4) whose call failed
    advanced_results,
    st_results,
    semantic_results,
    keyword_results,
    candidate_scores,    \* the dict, as its items in insertion order
    ensemble_candidates, \* the fused list after the sort
    \* ensure_initialized in the API's worker processes
    workers,             \* per worker: its _initialized flag and its position
    data_files,          \* which of the model, train and assessments files exist
    trainings,           \* runs of train_xgboost_reranker started so far
    \* a single function applied to drawn arguments
    call,                \* the function and its arguments
    value                \* what it returned

common_vars ==
    << query, top_k, use_llm_rerank, llm_mode, llm_answer, result, outcome, vector_db >>

pipeline_vars ==
    << use_xgboost_rerank, query_info, expanded_query, embedding_ok, candidates,
       filtered, xgb_mode, reranked >>

build_vars == << index_file, metadata_file, builder, loader, builds >>

ensemble_vars ==
    << include_st, failed_strategies, advanced_results, st_results, semantic_results, keyword_results,
       candidate_scores, ensemble_candidates >>

service_vars == << workers, data_files, trainings >>

function_vars == << call, value >>

vars ==
    << machine, pc, common_vars, pipeline_vars, build_vars, ensemble_vars, service_vars,
       function_vars >>

Absent == [ build |-> 0, content |-> << >> ]

BuilderIdle ==
    [ pc |-> "idle", id |-> 0, assessments |-> << >>, force_rebuild |-> FALSE,
      failed |-> {}, index |-> << >>, metadata |-> << >> ]

LoaderIdle == [ pc |-> "idle", index |-> Absent, metadata |-> Absent ]

BuildIdle ==
    /\ index_file = Absent
    /\ metadata_file = Absent
    /\ builder = BuilderIdle
    /\ loader = LoaderIdle
    /\ builds = 0

CommonIdle ==
    /\ query = [ text |-> << >> ]
    /\ top_k = 0
    /\ use_llm_rerank = FALSE
    /\ llm_mode = "unused"
    /\ llm_answer = << >>
    /\ result = << >>
    /\ outcome = "none"
    /\ vector_db = VectorDb

EnsembleIdle ==
    /\ include_st = FALSE
    /\ failed_strategies = {}
    /\ advanced_results = << >>
    /\ st_results = << >>
    /\ semantic_results = << >>
    /\ keyword_results = << >>
    /\ candidate_scores = << >>
    /\ ensemble_candidates = << >>

ServiceIdle ==
    /\ workers = << >>
    /\ data_files = [ model |-> FALSE, train |-> FALSE, assessments |-> FALSE ]
    /\ trainings = 0

FunctionIdle ==
    /\ call = [ fn |-> "none" ]
    /\ value = << >>

PipelineIdle ==
    /\ use_xgboost_rerank = FALSE
    /\ query_info = [ original_query |-> << >> ]
    /\ expanded_query = << >>
    /\ embedding_ok = FALSE
    /\ candidates = << >>
    /\ filtered = << >>
    /\ xgb_mode = "unused"
    /\ reranked = << >>

InitPipeline ==
    /\ machine = "retrieve_advanced"
    /\ pc = "start"
    /\ CommonIdle
    /\ PipelineIdle
    /\ BuildIdle
    /\ EnsembleIdle
    /\ ServiceIdle
    /\ FunctionIdle

\* steps 1 and 2: the call with its arguments, preprocess_query, expand_query
Call ==
    /\ machine = "retrieve_advanced" /\ pc = "start"
    /\ \E qi \in DOMAIN Queries, k \in 1..MaxTopK, llm \in BOOLEAN, xgb \in BOOLEAN,
          seed \in 0..MaxHashSeed :
          /\ query' = Queries[qi]
          /\ top_k' = k
          /\ use_llm_rerank' = llm
          /\ use_xgboost_rerank' = xgb
          /\ query_info' = preprocess_query(Queries[qi], seed)
          /\ expanded_query' = expand_query(preprocess_query(Queries[qi], seed))
    /\ pc' = "hybrid_retrieve"
    /\ UNCHANGED << vector_db, build_vars, ensemble_vars, service_vars, function_vars >>
    /\ UNCHANGED << machine, embedding_ok, candidates, filtered, xgb_mode, llm_mode, llm_answer,
                    reranked, result, outcome >>

\* step 3 with the embedding call succeeding
HybridRetrieve ==
    /\ machine = "retrieve_advanced" /\ pc = "hybrid_retrieve"
    /\ \E sim \in [ 1..Len(vector_db.index) -> SemLevels ] :
          candidates' = hybrid_retrieve(expanded_query, query_info, vector_db, sim, HybridTopK)
    /\ embedding_ok' = TRUE
    /\ pc' = "filter_candidates"
    /\ UNCHANGED << vector_db, build_vars, ensemble_vars, service_vars, function_vars >>
    /\ UNCHANGED << machine, query, top_k, use_llm_rerank, use_xgboost_rerank, query_info,
                    expanded_query, filtered, xgb_mode, llm_mode, llm_answer, reranked, result,
                    outcome >>

\* step 3 with get_query_embedding returning None
HybridRetrieveNoEmbedding ==
    /\ machine = "retrieve_advanced" /\ pc = "hybrid_retrieve"
    /\ candidates' = hybrid_retrieve(expanded_query, query_info, vector_db, << >>, HybridTopK)
    /\ embedding_ok' = FALSE
    /\ pc' = "filter_candidates"
    /\ UNCHANGED << vector_db, build_vars, ensemble_vars, service_vars, function_vars >>
    /\ UNCHANGED << machine, query, top_k, use_llm_rerank, use_xgboost_rerank, query_info,
                    expanded_query, filtered, xgb_mode, llm_mode, llm_answer, reranked, result,
                    outcome >>

\* step 4
FilterCandidates ==
    /\ machine = "retrieve_advanced" /\ pc = "filter_candidates"
    /\ filtered' = filter_candidates(candidates, query_info)
    /\ pc' = "rerank"
    /\ vector_db' = WriteThrough(vector_db, filter_candidates(candidates, query_info))
    /\ UNCHANGED << build_vars, ensemble_vars, service_vars, function_vars >>
    /\ UNCHANGED << machine, query, top_k, use_llm_rerank, use_xgboost_rerank, query_info,
                    expanded_query, embedding_ok, candidates, xgb_mode, llm_mode, llm_answer,
                    reranked, result, outcome >>

\* the pool handed to the learned reranker
XgbPool(flt, k) == Take(flt, k * 3)

\* the pool handed to the language-model reranker
LlmPool(flt, k) == Take(flt, k * 2)

\* (variant) the fallback hands back the filtered list without reranking it
XgbFallbackUnranked(flt, qinfo) == flt

\* the branch taken when the model is missing or the learned reranker raises
XgbFallback(flt, qinfo) == rerank_rule_based(flt, qinfo)

\* (variant) step 6 returns the reranked list uncut
FinishUncut(list) ==
    /\ reranked' = list
    /\ result' = list
    /\ outcome' = "returned"
    /\ pc' = "done"
    /\ vector_db' = WriteThrough(vector_db, list)
    /\ UNCHANGED << build_vars, ensemble_vars, service_vars, function_vars >>
    /\ UNCHANGED << machine, query, top_k, use_llm_rerank, use_xgboost_rerank, query_info,
                    expanded_query, embedding_ok, candidates, filtered >>

Finish(list) ==
    /\ reranked' = list
    /\ result' = Take(list, top_k)
    /\ outcome' = "returned"
    /\ pc' = "done"
    /\ vector_db' = WriteThrough(vector_db, list)
    /\ UNCHANGED << build_vars, ensemble_vars, service_vars, function_vars >>
    /\ UNCHANGED << machine, query, top_k, use_llm_rerank, use_xgboost_rerank, query_info,
                    expanded_query, embedding_ok, candidates, filtered >>

\* steps 5 and 6, use_xgboost_rerank: the model loads and scores the pool
RerankXgboost ==
    /\ machine = "retrieve_advanced" /\ pc = "rerank"
    /\ use_xgboost_rerank
    /\ xgb_mode' = "ok"
    /\ llm_mode' = "unused"
    /\ llm_answer' = << >>
    /\ \E scores \in [ 1..Len(XgbPool(filtered, top_k)) -> XgbLevels ] :
          Finish(rerank_with_xgboost(XgbPool(filtered, top_k), TRUE, scores, top_k))

\* steps 5 and 6, use_xgboost_rerank: xgboost is not installed or the model file
\* is absent (load_xgboost_reranker returns None), the file does not unpickle,
\* or predict_proba raises
RerankXgboostUnavailable ==
    /\ machine = "retrieve_advanced" /\ pc = "rerank"
    /\ use_xgboost_rerank
    /\ xgb_mode' \in XgbModes \ { "ok" }
    /\ llm_mode' = "unused"
    /\ llm_answer' = << >>
    /\ Finish(XgbFallback(filtered, query_info))

\* steps 5 and 6, use_llm_rerank without use_xgboost_rerank; the language model
\* answers with a URL list, or gives no usable answer (<< >>)
RerankLlm ==
    /\ machine = "retrieve_advanced" /\ pc = "rerank"
    /\ ~use_xgboost_rerank /\ use_llm_rerank
    /\ xgb_mode' = "unused"
    /\ \E answer \in { << >> } \cup Answers(LlmPool(filtered, top_k)) :
          /\ llm_mode' = IF answer = << >> THEN "no_answer" ELSE "answered"
          /\ llm_answer' = answer
          /\ Finish(llm_rerank(query.text, LlmPool(filtered, top_k), answer, top_k))

\* steps 5 and 6, use_llm_rerank without use_xgboost_rerank: the import of
\* llm_reranker raises
RerankLlmUnavailable ==
    /\ machine = "retrieve_advanced" /\ pc = "rerank"
    /\ ~use_xgboost_rerank /\ use_llm_rerank
    /\ xgb_mode' = "unused"
    /\ llm_mode' = "unavailable"
    /\ llm_answer' = << >>
    /\ Finish(rerank_rule_based(filtered, query_info))

\* steps 5 and 6, neither reranker asked for
RerankRule ==
    /\ machine = "retrieve_advanced" /\ pc = "rerank"
    /\ ~use_xgboost_rerank /\ ~use_llm_rerank
    /\ xgb_mode' = "unused"
    /\ llm_mode' = "unused"
    /\ llm_answer' = << >>
    /\ Finish(rerank_rule_based(filtered, query_info))

NextPipeline ==
    \/ Call
    \/ HybridRetrieve
    \/ HybridRetrieveNoEmbedding
    \/ FilterCandidates
    \/ RerankXgboost
    \/ RerankXgboostUnavailable
    \/ RerankLlm
    \/ RerankLlmUnavailable
    \/ RerankRule

Init == InitPipeline
Next == NextPipeline
Spec == Init /\ [][Next]_vars

(***************************************************************************)
(* initialize_vector_db and get_vector_db as processes over the two files  *)
(* of the vector database.  One process builds (and may be killed at any   *)
(* step), one loads; their steps interleave.  A process that returned      *)
(* keeps what it returned until its next call.                             *)
(***************************************************************************)
MaxBuilds == 3

\* the catalogues a build is given: the catalogue as it grew
Catalogs == { [ i \in 1..n |-> i ] : n \in 0..Len(Corpus) }

Exists(file) == file # Absent

InitBuild ==
    /\ machine = "vector_db"
    /\ pc = "run"
    /\ CommonIdle
    /\ PipelineIdle
    /\ BuildIdle
    /\ EnsembleIdle
    /\ ServiceIdle
    /\ FunctionIdle

BuildStep ==
    /\ machine = "vector_db"
    /\ UNCHANGED << machine, pc, common_vars, pipeline_vars, ensemble_vars, service_vars,
                    function_vars >>

BuilderAtRest == builder.pc \in { "idle", "built", "loaded", "none", "raised" }

\* initialize_vector_db(assessments, force_rebuild) up to its first file operation
BuildCall ==
    /\ BuildStep
    /\ BuilderAtRest
    /\ builds < MaxBuilds
    /\ \E assessments \in Catalogs, force_rebuild \in BOOLEAN :
          builder' = [ BuilderIdle EXCEPT
                         !.id = builds + 1,
                         !.assessments = assessments,
                         !.force_rebuild = force_rebuild,
                         !.pc = IF Exists(index_file) /\ Exists(metadata_file) /\ ~force_rebuild
                                THEN "load_index"
                                ELSE IF force_rebuild /\ Exists(index_file)
                                THEN "remove_index"
                                ELSE "embed" ]
    /\ builds' = builds + 1
    /\ UNCHANGED << index_file, metadata_file, loader >>

\* the load branch: faiss.read_index(INDEX_FILE)
BuildLoadIndex ==
    /\ BuildStep
    /\ builder.pc = "load_index"
    /\ builder' = IF Exists(index_file)
                  THEN [ builder EXCEPT !.pc = "load_metadata", !.index = index_file ]
                  ELSE [ BuilderIdle EXCEPT !.pc = "raised" ]
    /\ UNCHANGED << index_file, metadata_file, loader, builds >>

\* the load branch: pickle.load of METADATA_FILE, and the return of the pair
BuildLoadMetadata ==
    /\ BuildStep
    /\ builder.pc = "load_metadata"
    /\ builder' = IF Exists(metadata_file)
                  THEN [ BuilderIdle EXCEPT !.pc = "loaded", !.index = builder.index,
                                            !.metadata = metadata_file ]
                  ELSE [ BuilderIdle EXCEPT !.pc = "raised" ]
    /\ UNCHANGED << index_file, metadata_file, loader, builds >>

\* os.remove(INDEX_FILE) and the test whether METADATA_FILE exists
RemoveIndex ==
    /\ BuildStep
    /\ builder.pc = "remove_index"
    /\ index_file' = Absent
    /\ builder' = [ builder EXCEPT !.pc = IF Exists(metadata_file)
                                          THEN "remove_metadata" ELSE "embed" ]
    /\ UNCHANGED << metadata_file, loader, builds >>

\* os.remove(METADATA_FILE)
RemoveMetadata ==
    /\ BuildStep
    /\ builder.pc = "remove_metadata"
    /\ metadata_file' = Absent
    /\ builder' = [ builder EXCEPT !.pc = "embed" ]
    /\ UNCHANGED << index_file, loader, builds >>

\* texts, metadatas, the batch loop, valid_indices; returns None on no embeddings
Embed ==
    /\ BuildStep
    /\ builder.pc = "embed"
    /\ \E failed \in SUBSET (1..Len(builder.assessments)) :
          LET made == BuildArtifacts(builder.assessments, failed)
          IN  builder' = IF made.index = << >>
                         THEN [ builder EXCEPT !.pc = "none" ]
                         ELSE [ builder EXCEPT !.pc = "write_index",
                                               !.failed = failed,
                                               !.index = made.index,
                                               !.metadata = made.metadata ]
    /\ UNCHANGED << index_file, metadata_file, loader, builds >>

\* faiss.write_index(index, INDEX_FILE)
WriteIndex ==
    /\ BuildStep
    /\ builder.pc = "write_index"
    /\ index_file' = [ build |-> builder.id, content |-> builder.index ]
    /\ builder' = [ builder EXCEPT !.pc = "write_metadata" ]
    /\ UNCHANGED << metadata_file, loader, builds >>

\* pickle.dump(metadatas, f) and the return of the built database
WriteMetadata ==
    /\ BuildStep
    /\ builder.pc = "write_metadata"
    /\ metadata_file' = [ build |-> builder.id, content |-> builder.metadata ]
    /\ builder' = [ builder EXCEPT !.pc = "built" ]
    /\ UNCHANGED << index_file, loader, builds >>

\* the building process is killed
BuildInterrupted ==
    /\ BuildStep
    /\ ~BuilderAtRest
    /\ builder' = BuilderIdle
    /\ UNCHANGED << index_file, metadata_file, loader, builds >>

\* get_vector_db: the test that both files exist
LoadCall ==
    /\ BuildStep
    /\ loader.pc \in { "idle", "returned", "raised" }
    /\ loader' = IF Exists(index_file) /\ Exists(metadata_file)
                 THEN [ LoaderIdle EXCEPT !.pc = "read_index" ]
                 ELSE [ LoaderIdle EXCEPT !.pc = "raised" ]
    /\ UNCHANGED << index_file, metadata_file, builder, builds >>

\* get_vector_db: faiss.read_index(INDEX_FILE)
LoadReadIndex ==
    /\ BuildStep
    /\ loader.pc = "read_index"
    /\ loader' = IF Exists(index_file)
                 THEN [ LoaderIdle EXCEPT !.pc = "read_metadata", !.index = index_file ]
                 ELSE [ LoaderIdle EXCEPT !.pc = "raised" ]
    /\ UNCHANGED << index_file, metadata_file, builder, builds >>

\* get_vector_db: pickle.load of METADATA_FILE, and the return of the pair
LoadReadMetadata ==
    /\ BuildStep
    /\ loader.pc = "read_metadata"
    /\ loader' = IF Exists(metadata_file)
                 THEN [ pc |-> "returned", index |-> loader.index,
                        metadata |-> metadata_file ]
                 ELSE [ LoaderIdle EXCEPT !.pc = "raised" ]
    /\ UNCHANGED << index_file, metadata_file, builder, builds >>

NextBuild ==
    \/ BuildCall
    \/ BuildLoadIndex
    \/ BuildLoadMetadata
    \/ RemoveIndex
    \/ RemoveMetadata
    \/ Embed
    \/ WriteIndex
    \/ WriteMetadata
    \/ BuildInterrupted
    \/ LoadCall
    \/ LoadReadIndex
    \/ LoadReadMetadata

SpecBuild == InitBuild /\ [][NextBuild]_vars

(***************************************************************************)
(* ensemble_retrieve as a state machine.  The four strategies are calls    *)
(* whose results are drawn: each list holds distinct records of the        *)
(* catalogue the strategy reaches, at most MaxListLen and top_k * 2 of     *)
(* them, each with the score field the strategy sets.                      *)
(***************************************************************************)
\* a catalogue record under the other URL form of the same assessment
MirrorRecord(meta) ==
    [ meta EXCEPT !.url = generate_alternate_url(meta.url),
                  !.alternate_urls = << meta.url >> ]

\* the catalogue holds the first assessment under both of its URL forms
AdvancedReach == << VectorDb.metadata[1], VectorDb.metadata[2] >>
StReach == << MirrorRecord(VectorDb.metadata[1]), VectorDb.metadata[2] >>
SemanticReach == << VectorDb.metadata[1], VectorDb.metadata[2] >>
KeywordReach == << MirrorRecord(VectorDb.metadata[1]), VectorDb.metadata[2] >>

\* scores the strategies report (units 1/4000)
AdvancedLevels == { 800, 3600 }
StLevels == { 3400 }
SemanticLevels == { 1200, 2800 }
KeywordLevels == { 1200 }

\* the queries the ensemble is asked
EnsembleQueries == { 1, 2 }

StrategyScores(field, s) ==
    CASE field = "combined_score" -> [ combined_score |-> s ]
      [] field = "score" -> [ score |-> s ]
      [] field = "distance" -> [ distance |-> s ]
      [] field = "keyword_score" -> [ keyword_score |-> s, distance |-> s ]

\* the lists a strategy can return; sorted: the strategy sorts by its score
StrategyLists(reach, field, levels, sorted, k) ==
    LET raws == UNION { [ 1..n -> (DOMAIN reach) \X levels ] :
                          n \in 0..Min(Min(MaxListLen, k * 2), Len(reach)) }
        ok(raw) == /\ \A i, j \in DOMAIN raw : i # j => raw[i][1] # raw[j][1]
                   /\ sorted => \A i, j \in DOMAIN raw : i < j => raw[i][2] >= raw[j][2]
    IN  { [ i \in DOMAIN raw |->
              Candidate(reach[raw[i][1]], reach[raw[i][1]].duration,
                        StrategyScores(field, raw[i][2])) ] : raw \in { r \in raws : ok(r) } }

InitEnsemble ==
    /\ machine = "ensemble_retrieve"
    /\ pc = "start"
    /\ CommonIdle
    /\ PipelineIdle
    /\ BuildIdle
    /\ EnsembleIdle
    /\ ServiceIdle
    /\ FunctionIdle

EnsembleStep ==
    /\ machine = "ensemble_retrieve"
    /\ UNCHANGED << machine, pipeline_vars, build_vars, service_vars, function_vars >>

\* the call with its arguments
EnsembleCall ==
    /\ EnsembleStep
    /\ pc = "start"
    /\ \E qi \in EnsembleQueries, k \in 1..MaxTopK, llm \in BOOLEAN, st \in BOOLEAN :
          /\ query' = Queries[qi]
          /\ top_k' = k
          /\ use_llm_rerank' = llm
          /\ include_st' = st
    /\ pc' = "strategies"
    /\ UNCHANGED << llm_mode, llm_answer, result, outcome, vector_db, failed_strategies,
                    advanced_results, st_results, semantic_results, keyword_results,
                    candidate_scores, ensemble_candidates >>

\* what a strategy call hands to the fusion: the empty list when the call
\* failed.  A failed embedding call makes retrieve_advanced, retrieve_candidates
\* and keyword_only_retrieve return []; whatever the SentenceTransformer
\* strategy raises is caught and leaves st_results = [].
StrategyOutcome(n, failed, lists) == IF n \in failed THEN { << >> } ELSE lists

\* the strategy calls, the four collection loops, the scoring loop and the sort
EnsembleFuse ==
    /\ EnsembleStep
    /\ pc = "strategies"
    /\ \E failed \in SUBSET (IF include_st THEN 1..NumStrategies ELSE (1..NumStrategies) \ { 2 }) :
       \E advanced \in StrategyOutcome(1, failed,
                          StrategyLists(AdvancedReach, "combined_score", AdvancedLevels,
                                        FALSE, top_k)),
          st \in IF include_st
                 THEN StrategyOutcome(2, failed,
                          StrategyLists(StReach, "score", StLevels, TRUE, top_k))
                 ELSE { << >> },
          semantic \in StrategyOutcome(3, failed,
                          StrategyLists(SemanticReach, "distance", SemanticLevels, TRUE, top_k)),
          keyword \in StrategyOutcome(4, failed,
                          StrategyLists(KeywordReach, "keyword_score", KeywordLevels, TRUE,
                                        top_k)) :
          /\ failed_strategies' = failed
          /\ advanced_results' = advanced
          /\ st_results' = st
          /\ semantic_results' = semantic
          /\ keyword_results' = keyword
          /\ candidate_scores' = CandidateScores(advanced, st, semantic, keyword)
          /\ ensemble_candidates' = Fuse(CandidateScores(advanced, st, semantic, keyword))
          /\ vector_db' = WriteThrough(vector_db,
                                       Fuse(CandidateScores(advanced, st, semantic, keyword)))
    /\ pc' = "rerank"
    /\ UNCHANGED << query, top_k, use_llm_rerank, include_st, llm_mode, llm_answer, result,
                    outcome >>

EnsembleFinish(list) ==
    /\ result' = Take(list, top_k)
    /\ vector_db' = WriteThrough(vector_db, list)
    /\ outcome' = "returned"
    /\ pc' = "done"
    /\ UNCHANGED << query, top_k, use_llm_rerank, include_st, failed_strategies,
                    advanced_results, st_results, semantic_results, keyword_results,
                    candidate_scores, ensemble_candidates >>

\* use_llm_rerank with a non-empty fused list: llm_rerank, whose model answers
\* with a URL list or gives no usable answer
EnsembleLlmRerank ==
    /\ EnsembleStep
    /\ pc = "rerank"
    /\ use_llm_rerank /\ Len(ensemble_candidates) > 0
    /\ \E answer \in { << >> } \cup Answers(ensemble_candidates) :
          /\ llm_mode' = IF answer = << >> THEN "no_answer" ELSE "answered"
          /\ llm_answer' = answer
          /\ EnsembleFinish(llm_rerank(query.text, ensemble_candidates, answer, top_k))

\* use_llm_rerank with a non-empty fused list: the import of llm_reranker raises
EnsembleLlmUnavailable ==
    /\ EnsembleStep
    /\ pc = "rerank"
    /\ use_llm_rerank /\ Len(ensemble_candidates) > 0
    /\ llm_mode' = "unavailable"
    /\ llm_answer' = << >>
    /\ EnsembleFinish(ensemble_candidates)

\* no reranking asked for, or nothing to rerank
EnsembleReturn ==
    /\ EnsembleStep
    /\ pc = "rerank"
    /\ ~(use_llm_rerank /\ Len(ensemble_candidates) > 0)
    /\ llm_mode' = "unused"
    /\ llm_answer' = << >>
    /\ EnsembleFinish(ensemble_candidates)

NextEnsemble ==
    \/ EnsembleCall
    \/ EnsembleFuse
    \/ EnsembleLlmRerank
    \/ EnsembleLlmUnavailable
    \/ EnsembleReturn

SpecEnsemble == InitEnsemble /\ [][NextEnsemble]_vars

(***************************************************************************)
(* Both query entry points.                                                *)
(***************************************************************************)
InitAll == InitPipeline \/ InitEnsemble

NextAll == NextPipeline \/ NextEnsemble

SpecAll == InitAll /\ [][NextAll]_vars

(***************************************************************************)
(* Properties of retrieve_advanced.                                        *)
(***************************************************************************)
Done == machine = "retrieve_advanced" /\ pc = "done"

XgbUnavailable == use_xgboost_rerank /\ xgb_mode \in XgbModes \ { "ok" }

\* what the rule-based path returns for the same query and top_k
RuleBasedResult ==
    Take(rerank_rule_based(filter_candidates(candidates, query_info), query_info), top_k)

\* C1: when the learned reranker is unavailable (xgboost not installed, model
\* file absent, model file corrupt, or scoring raises), a call with
\* use_xgboost_rerank returns, and what it returns is the rule-based
\* reranking of the whole soft-filtered list truncated to top_k.
C1_UnavailableRerankerFallsBackToRuleBased ==
    (Done /\ XgbUnavailable) => (outcome = "returned" /\ result = RuleBasedResult)

\* C1 witness: a finished call with a corrupt model file whose result is not
\* simply the head of the filtered list, so the rule-based reranking acted.
C1_Witness ==
    /\ Done /\ use_xgboost_rerank /\ xgb_mode = "corrupt"
    /\ Len(filtered) > 3 * top_k
    /\ result # << >>
    /\ [ i \in DOMAIN result |-> result[i].url ]
          # [ i \in DOMAIN result |-> filtered[i].url ]

\* C2: a failed query embedding makes retrieve_advanced fail explicitly; it
\* never returns an empty list in that case.
C2_EmbeddingFailureIsExplicit ==
    (Done /\ ~embedding_ok) => (outcome = "raised" /\ ~(outcome = "returned" /\ result = << >>))

\* the fields of a candidate that identify it (everything but its scores)
Identity(cand) ==
    [ url |-> cand.url, alternate_urls |-> cand.alternate_urls, name |-> cand.name,
      description |-> cand.description, remote_support |-> cand.remote_support,
      test_type |-> cand.test_type, duration |-> cand.duration ]

Filtered == machine = "retrieve_advanced" /\ pc \in { "rerank", "done" }

\* C5: filter_candidates never removes, adds or reorders candidates: its output
\* has the length of its input and the same candidate at every position.
C5_SoftFilterKeepsEveryCandidate ==
    Filtered =>
        /\ Len(filtered) = Len(candidates)
        /\ \A i \in DOMAIN candidates : Identity(filtered[i]) = Identity(candidates[i])

\* C5 witness: the filter has run on a list in which a candidate is over the
\* query's duration tolerance and was penalised, and it is still in the output.
C5_Witness ==
    /\ Filtered
    /\ Len(candidates) >= 2
    /\ \E i \in DOMAIN candidates :
          /\ OrZero(query_info.duration) # 0
          /\ OrZero(candidates[i].duration) > 0
          /\ OverDuration(candidates[i].duration, query_info.duration)
          /\ filtered[i].combined_score # candidates[i].combined_score

\* C7: the list filter_candidates hands to the reranking step is sorted
\* descending by the post-penalty combined_score, so the pool filtered[:3*top_k]
\* holds the 3*top_k candidates with the highest combined_score.
C7_FilteredListIsSortedByPenalisedScore ==
    Filtered =>
        /\ \A i, j \in DOMAIN filtered :
              i < j => filtered[i].combined_score >= filtered[j].combined_score
        /\ \A i, j \in DOMAIN filtered :
              (i <= 3 * top_k /\ j > 3 * top_k)
                  => filtered[i].combined_score >= filtered[j].combined_score

(***************************************************************************)
(* Properties of the vector database build and load.                       *)
(***************************************************************************)
\* the pairs the two load paths have returned
LoadedPairs ==
    (IF machine = "vector_db" /\ loader.pc = "returned"
     THEN { [ index |-> loader.index, metadata |-> loader.metadata ] } ELSE {})
    \cup
    (IF machine = "vector_db" /\ builder.pc = "loaded"
     THEN { [ index |-> builder.index, metadata |-> builder.metadata ] } ELSE {})

\* C3: every pair that get_vector_db or the load branch of
\* initialize_vector_db returns has as many index vectors as metadata
\* records and both files written by the same build; otherwise the load fails.
C3_LoadedPairIsConsistent ==
    \A pair \in LoadedPairs :
        /\ Len(pair.index.content) = Len(pair.metadata.content)
        /\ pair.index.build = pair.metadata.build

\* C4: a completed build holds, and has written, one vector per input record,
\* position i of the index and of the metadata both being input record i; a
\* failed document has the zero vector at its own position; only a build of
\* no records ends without a database.
C4_BuildKeepsPositionsAligned ==
    /\ (machine = "vector_db" /\ builder.pc = "built") =>
          /\ Len(builder.index) = Len(builder.assessments)
          /\ Len(builder.metadata) = Len(builder.assessments)
          /\ \A i \in DOMAIN builder.assessments :
                /\ builder.index[i] = IF i \in builder.failed THEN ZeroVector
                                      ELSE DocVector(builder.assessments[i])
                /\ builder.metadata[i] = BuildMetadata(Corpus[builder.assessments[i]])
          /\ index_file = [ build |-> builder.id, content |-> builder.index ]
          /\ metadata_file = [ build |-> builder.id, content |-> builder.metadata ]
    /\ (machine = "vector_db" /\ builder.pc = "none") => builder.assessments = << >>

\* C4 witness: a completed build in which the embedding of a document failed
\* and a later document's embedding succeeded.
C4_Witness ==
    /\ machine = "vector_db" /\ builder.pc = "built"
    /\ \E i \in builder.failed : \E j \in DOMAIN builder.assessments :
          i < j /\ j \notin builder.failed /\ builder.index[j] = DocVector(builder.assessments[j])

(***************************************************************************)
(* Properties of ensemble_retrieve.                                        *)
(***************************************************************************)
Fused == machine = "ensemble_retrieve" /\ pc \in { "rerank", "done" }

\* the strategy result lists that are fused, with the score each contributes
StrategyResults ==
    << [ results |-> advanced_results,
         scores |-> [ i \in DOMAIN advanced_results |->
                        GetOr(advanced_results[i].combined_score, 0) ] ],
       [ results |-> st_results,
         scores |-> [ i \in DOMAIN st_results |->
                        GetOr(st_results[i].score, GetOr(st_results[i].semantic_score, 0)) ] ],
       [ results |-> semantic_results,
         scores |-> [ i \in DOMAIN semantic_results |->
                        GetOr(semantic_results[i].distance, 0) ] ],
       [ results |-> keyword_results,
         scores |-> [ i \in DOMAIN keyword_results |->
                        GetOr(keyword_results[i].keyword_score, 0) ] ] >>

\* the contributions for a URL: (strategy, 1-based rank, score)
Contributions(url) ==
    { c \in UNION { { [ strategy |-> n, rank |-> i, score |-> StrategyResults[n].scores[i] ] :
                        i \in DOMAIN StrategyResults[n].results } :
                    n \in DOMAIN StrategyResults } :
        StrategyResults[c.strategy].results[c.rank].url = url }

ContributedUrls ==
    UNION { { StrategyResults[n].results[i].url : i \in DOMAIN StrategyResults[n].results } :
            n \in DOMAIN StrategyResults }

\* C8: before truncation the fused list holds every candidate of every
\* strategy list exactly once and nothing else; without reranking the result
\* is the fused list cut to top_k.
C8_FusionKeepsEveryCandidateOnce ==
    Fused =>
        /\ \A url \in ContributedUrls :
              Cardinality({ k \in DOMAIN ensemble_candidates :
                              ensemble_candidates[k].url = url }) = 1
        /\ \A k \in DOMAIN ensemble_candidates : ensemble_candidates[k].url \in ContributedUrls
        /\ (pc = "done" /\ llm_mode \in { "unused", "unavailable" })
              => result = Take(ensemble_candidates, top_k)
        /\ pc = "done"
              => \A i \in DOMAIN result :
                    \E k \in DOMAIN ensemble_candidates : result[i].url = ensemble_candidates[k].url

\* C8 witness: a fusion in which one URL came from two strategies and another
\* only from the keyword strategy, and the fused list is longer than top_k.
C8_Witness ==
    /\ Fused /\ pc = "done"
    /\ Len(ensemble_candidates) > top_k
    /\ \E u \in ContributedUrls : Cardinality(Contributions(u)) >= 2
    /\ \E u \in ContributedUrls : \A c \in Contributions(u) : c.strategy = 4

\* C9: the fused list never holds two entries whose variant-slug sets
\* intersect; contributions for one assessment under different URL strings
\* are merged into one entry.
C9_FusionDeduplicatesByIdentitySet ==
    Fused =>
        \A i, j \in DOMAIN ensemble_candidates :
            i # j => ~urls_match(ensemble_candidates[i].url, ensemble_candidates[j].url,
                                 ensemble_candidates[i].alternate_urls,
                                 ensemble_candidates[j].alternate_urls)

MaxOf(S) == CHOOSE x \in S : \A y \in S : x >= y

RECURSIVE RankSum(_)
\* the sum of RrfDen / (60 + rank) over a set of contributions
RankSum(cs) ==
    IF cs = {} THEN 0
    ELSE LET c == CHOOSE x \in cs : TRUE
         IN  RrfDen \div (RrfK + c.rank) + RankSum(cs \ { c })

\* 0.7 * s1 + 0.3 * s2 for the two largest contributed scores, the single
\* score if there is one (units 1/40000)
TopTwoWeighted(cs) ==
    LET best == CHOOSE c \in cs : \A d \in cs : c.score >= d.score
        rest == cs \ { best }
    IN  IF rest = {} THEN 10 * best.score
        ELSE 7 * best.score + 3 * MaxOf({ d.score : d \in rest })

PositionIn(list, url) == CHOOSE i \in DOMAIN list : list[i].url = url

\* the order in which index.search returned two documents of the catalogue
SearchedBefore(c, d) ==
    \/ c.semantic_score > d.semantic_score
    \/ /\ c.semantic_score = d.semantic_score
       /\ PositionIn(VectorDb.metadata, c.url) < PositionIn(VectorDb.metadata, d.url)

\* C6: the output of each ranking stage is in non-increasing order of the
\* stage's score, candidates of equal score keeping their input order:
\* combined_score for hybrid_retrieve and rerank_rule_based, xgboost_score for
\* rerank_with_xgboost, ensemble_score for the fusion of ensemble_retrieve.
C6_StagesSortStablyDescending ==
    /\ (machine = "retrieve_advanced" /\ pc \in { "filter_candidates", "rerank", "done" }) =>
          \A i, j \in DOMAIN candidates :
              i < j => /\ candidates[i].combined_score >= candidates[j].combined_score
                       /\ candidates[i].combined_score = candidates[j].combined_score
                             => SearchedBefore(candidates[i], candidates[j])
    /\ (Done /\ (XgbUnavailable \/ (~use_xgboost_rerank /\ llm_mode \in { "unused", "unavailable" }))) =>
          \A i, j \in DOMAIN reranked :
              i < j => /\ reranked[i].combined_score >= reranked[j].combined_score
                       /\ reranked[i].combined_score = reranked[j].combined_score
                             => PositionIn(filtered, reranked[i].url)
                                   < PositionIn(filtered, reranked[j].url)
    /\ (Done /\ use_xgboost_rerank /\ xgb_mode = "ok") =>
          \A i, j \in DOMAIN reranked :
              i < j => /\ reranked[i].xgboost_score >= reranked[j].xgboost_score
                       /\ reranked[i].xgboost_score = reranked[j].xgboost_score
                             => PositionIn(filtered, reranked[i].url)
                                   < PositionIn(filtered, reranked[j].url)
    /\ Fused =>
          \A i, j \in DOMAIN ensemble_candidates :
              i < j => /\ ScoreGeq(ensemble_candidates[i].ensemble_score,
                                   ensemble_candidates[j].ensemble_score)
                       /\ ScoreGeq(ensemble_candidates[j].ensemble_score,
                                   ensemble_candidates[i].ensemble_score)
                             => PositionIn(candidate_scores, ensemble_candidates[i].url)
                                   < PositionIn(candidate_scores, ensemble_candidates[j].url)

\* C6 witness (retrieve_advanced): the rule-based reranker returned three or
\* more candidates, two of equal score and one of another score.
C6_Witness ==
    /\ Done /\ ~use_xgboost_rerank /\ ~use_llm_rerank
    /\ Len(reranked) >= 3
    /\ \E i, j \in DOMAIN reranked :
          i < j /\ reranked[i].combined_score = reranked[j].combined_score
                /\ PositionIn(filtered, reranked[i].url) + 1 < PositionIn(filtered, reranked[j].url)
    /\ \E i, j \in DOMAIN reranked : reranked[i].combined_score # reranked[j].combined_score

(***************************************************************************)
(* The effect of a further contribution on an item's ensemble_score.       *)
(***************************************************************************)
\* the contribution of an item with the highest score
BestContribution(cs) == CHOOSE c \in cs : \A d \in cs : c.score >= d.score

\* C11: a fused item contributed by two or more strategies has an
\* ensemble_score at least the ensemble_score of its highest-scoring
\* contribution alone.
C11_FurtherContributionNeverLowersScore ==
    Fused =>
        \A k \in DOMAIN ensemble_candidates :
            LET cs == Contributions(ensemble_candidates[k].url)
                best == BestContribution(cs)
            IN  Cardinality(cs) >= 2
                  => ScoreGeq(ensemble_candidates[k].ensemble_score,
                              FinalScore(<< best.score >>, << best.rank >>))

(***************************************************************************)
(* A failed or empty strategy in the fusion.                               *)
(***************************************************************************)
\* the strategies that handed a non-empty list to the fusion
RemainingStrategies == { n \in DOMAIN StrategyResults : StrategyResults[n].results # << >> }

RECURSIVE CollectRemaining(_, _)
\* candidate_scores built from the remaining strategies' lists only, in the
\* order the strategies are read
CollectRemaining(n, cs) ==
    IF n > Len(StrategyResults) THEN cs
    ELSE IF n \in RemainingStrategies
         THEN CollectRemaining(n + 1,
                  Collect(StrategyResults[n].results, StrategyResults[n].scores, 1, cs, n = 1))
         ELSE CollectRemaining(n + 1, cs)

MaxWorkers == 2
MaxCalls == 2

Workers == 1..MaxWorkers

\* caller: the handler that called ensure_initialized; response: what the
\* handler answered, "none" while it runs
WorkerIdle ==
    [ pc |-> "idle", initialized |-> FALSE, calls |-> 0, caller |-> "none",
      response |-> "none" ]

\* the vector database a build of the whole catalogue leaves on disk
BuiltIndex(id) == [ build |-> id, content |-> VectorDb.index ]
BuiltMetadata(id) == [ build |-> id, content |-> VectorDb.metadata ]

InitService ==
    /\ machine = "ensure_initialized"
    /\ pc = "run"
    /\ CommonIdle
    /\ PipelineIdle
    /\ EnsembleIdle
    /\ FunctionIdle
    /\ workers = [ w \in Workers |-> WorkerIdle ]
    /\ trainings = 0
    /\ \E model \in BOOLEAN, train \in BOOLEAN, assessments \in BOOLEAN :
          data_files = [ model |-> model, train |-> train, assessments |-> assessments ]
    /\ loader = LoaderIdle
    /\ builder = BuilderIdle
    /\ \/ index_file = Absent /\ metadata_file = Absent /\ builds = 0
       \/ index_file = BuiltIndex(1) /\ metadata_file = BuiltMetadata(1) /\ builds = 1

ServiceStep ==
    /\ machine = "ensure_initialized"
    /\ UNCHANGED << machine, pc, common_vars, pipeline_vars, ensemble_vars, function_vars,
                    builder, loader >>

\* no handler runs in the worker
WorkerAtRest(w) ==
    \/ workers[w].pc = "idle"
    \/ workers[w].pc \in { "returned", "raised" } /\ workers[w].response # "none"

\* the startup event runs first, once; the request handlers after it
Callers(w) ==
    IF workers[w].calls = 0 THEN { "startup_event" }
    ELSE { "health_check", "recommend_assessments" }

\* (variant) the flag is set before the checks, so a raise leaves it set
RaiseMarked(w) == [ workers EXCEPT ![w].pc = "raised", ![w].initialized = TRUE ]

\* ensure_initialized raises: _initialized is not assigned
Raise(w) == [ workers EXCEPT ![w].pc = "raised" ]

\* ensure_initialized assigns _initialized = True and returns
Return(w) == [ workers EXCEPT ![w].pc = "returned", ![w].initialized = TRUE ]

\* a handler calls ensure_initialized(): the test of the worker's _initialized flag
EnsureCall(w) ==
    /\ ServiceStep
    /\ WorkerAtRest(w)
    /\ workers[w].calls < MaxCalls
    /\ \E caller \in Callers(w) :
          workers' = [ workers EXCEPT ![w].calls = @ + 1,
                                     ![w].caller = caller,
                                     ![w].response = "none",
                                     ![w].pc = IF workers[w].initialized
                                               THEN "returned" ELSE "check_db" ]
    /\ UNCHANGED << data_files, trainings, index_file, metadata_file, builds >>

\* the test whether the vector database files exist, and whether
\* data/assessments.json does when they do not
CheckDb(w) ==
    /\ ServiceStep
    /\ workers[w].pc = "check_db"
    /\ workers' = IF Exists(index_file) /\ Exists(metadata_file)
                  THEN [ workers EXCEPT ![w].pc = "check_model" ]
                  ELSE IF data_files.assessments
                  THEN [ workers EXCEPT ![w].pc = "init_db" ]
                  ELSE Raise(w)
    /\ UNCHANGED << data_files, trainings, index_file, metadata_file, builds >>

\* initialize_vector_db(assessments, force_rebuild=False) of the whole catalogue
InitDb(w) ==
    /\ ServiceStep
    /\ workers[w].pc = "init_db"
    /\ IF Exists(index_file) /\ Exists(metadata_file)
       THEN UNCHANGED << index_file, metadata_file, builds >>
       ELSE /\ index_file' = BuiltIndex(builds + 1)
            /\ metadata_file' = BuiltMetadata(builds + 1)
            /\ builds' = builds + 1
    /\ workers' = [ workers EXCEPT ![w].pc = "check_model" ]
    /\ UNCHANGED << data_files, trainings >>

\* json.load or initialize_vector_db raises, or initialize_vector_db returns
\* None (no embedding to store) and ensure_initialized raises RuntimeError
InitDbFails(w) ==
    /\ ServiceStep
    /\ workers[w].pc = "init_db"
    /\ workers' = Raise(w)
    /\ UNCHANGED << data_files, trainings, index_file, metadata_file, builds >>

\* the test whether the model file exists; without it and with data/train.csv
\* the worker starts to train, otherwise it sets its flag and returns
CheckModel(w) ==
    /\ ServiceStep
    /\ workers[w].pc = "check_model"
    /\ IF ~data_files.model /\ data_files.train
       THEN /\ workers' = [ workers EXCEPT ![w].pc = "train" ]
            /\ trainings' = trainings + 1
       ELSE /\ workers' = Return(w)
            /\ UNCHANGED trainings
    /\ UNCHANGED << data_files, index_file, metadata_file, builds >>

\* get_vector_db and train_xgboost_reranker end: the model file is written, or
\* no model was trained (xgboost missing, no training data, an exception);
\* either way the worker sets its flag and returns
TrainEnd(w) ==
    /\ ServiceStep
    /\ workers[w].pc = "train"
    /\ \E trained \in BOOLEAN :
          data_files' = [ data_files EXCEPT !.model = @ \/ trained ]
    /\ workers' = Return(w)
    /\ UNCHANGED << trainings, index_file, metadata_file, builds >>

\* what a handler answers once its ensure_initialized call is over.  After a
\* return, recommend_assessments loads the vector database and retrieves: it
\* answers with recommendations, or with an HTTP error (404, 500)
Responses(caller, pc_) ==
    IF caller = "startup_event"
    THEN IF pc_ = "returned" THEN { "started" } ELSE { "started_with_warning" }
    ELSE IF caller = "health_check"
    THEN IF pc_ = "returned" THEN { "healthy" } ELSE { "unhealthy" }
    ELSE IF pc_ = "returned" THEN { "recommendations", "http_error" } ELSE { "http_500" }

\* the rest of the handler after ensure_initialized returned or raised
Respond(w) ==
    /\ ServiceStep
    /\ workers[w].pc \in { "returned", "raised" }
    /\ workers[w].response = "none"
    /\ \E r \in Responses(workers[w].caller, workers[w].pc) :
          workers' = [ workers EXCEPT ![w].response = r ]
    /\ UNCHANGED << data_files, trainings, index_file, metadata_file, builds >>

NextService ==
    \E w \in Workers :
        \/ EnsureCall(w)
        \/ CheckDb(w)
        \/ InitDb(w)
        \/ InitDbFails(w)
        \/ CheckModel(w)
        \/ TrainEnd(w)
        \/ Respond(w)

SpecService == InitService /\ [][NextService]_vars

\* the workers that are training the learned reranker
Training == { w \in Workers : workers[w].pc = "train" }

\* C13: lazy training is idempotent under concurrent triggering: a trigger
\* that finds training in progress or complete does nothing, so no two
\* workers ever train at once and nobody trains once the model exists.
C13_TrainingRunsAtMostOnce ==
    machine = "ensure_initialized" =>
        /\ Cardinality(Training) <= 1
        /\ data_files.model => Training = {}

(***************************************************************************)
(* Progress of retrieve_advanced.  The steps a started call takes by       *)
(* itself are taken eventually.  The embedding call of step 3 and the      *)
(* language model call of step 5 end when the service answers or the       *)
(* client raises; the code passes no timeout to either call, so nothing is *)
(* assumed about when, or whether, they end.                               *)
(***************************************************************************)
ProgramSteps ==
    \/ FilterCandidates
    \/ RerankXgboost
    \/ RerankXgboostUnavailable
    \/ RerankRule

SpecLive == Init /\ [][Next]_vars /\ WF_vars(ProgramSteps)

\* a call of retrieve_advanced is under way
Called == machine = "retrieve_advanced" /\ pc \notin { "start", "done" }

\* C14: every retrieval call eventually returns: the embedding call and the
\* language model call are bounded by a timeout, so a service that never
\* answers cannot block the call forever.
C14_EveryCallEventuallyReturns == Called ~> Done

(***************************************************************************)
(* Functions applied to drawn arguments.  call holds the function and its  *)
(* arguments, value what the call gave: the returned value, or that the    *)
(* call raised.                                                            *)
(***************************************************************************)
Raised == [ outcome |-> "raised" ]
Returned(v) == [ outcome |-> "returned", result |-> v ]

\* a dict with the one key, or with no key
Field(key, v) == [ k \in { key } |-> v ]
NoField == [ k \in {} |-> 0 ]

\* candidates whose optional fields are absent, null or set
DrawnCandidates ==
    { [ name |-> Corpus[1].name, url |-> Corpus[1].url, combined_score |-> 2000 ]
        @@ duration @@ test_type @@ description @@ remote_support :
        duration \in { NoField, Field("duration", NoneInt), Field("duration", 30),
                       Field("duration", 90) },
        test_type \in { NoField, Field("test_type", NoneText), Field("test_type", << >>),
                        Field("test_type", << "Ability & Aptitude" >>) },
        description \in { NoField, Field("description", NoneText),
                          Field("description", Corpus[1].description) },
        remote_support \in { NoField, Field("remote_support", "None"),
                             Field("remote_support", "Yes") } }

\* a candidate as hybrid_retrieve builds it, with every field
FullCandidate == Candidate(Corpus[2], Corpus[2].duration, [ combined_score |-> 1000 ])

RuleBasedCalls ==
    { [ fn |-> "rerank_rule_based", candidates |-> cands,
        query_info |-> preprocess_query(Queries[qi], 0) ] :
        cands \in { << c >> : c \in DrawnCandidates }
                  \cup { << FullCandidate, c >> : c \in DrawnCandidates },
        qi \in DOMAIN Queries }

(***************************************************************************)
(* normalize_url_to_slug on every string of at most MaxUrlLen tokens.      *)
(***************************************************************************)
MaxUrlLen == 5

UrlAlphabet == { "/", "view", "foo", "Foo", "%20", " " }

RECURSIVE Strings(_)
\* the strings of exactly n tokens
Strings(n) ==
    IF n = 0 THEN { << >> }
    ELSE { Append(s, t) : s \in Strings(n - 1), t \in UrlAlphabet }

DrawnStrings == UNION { Strings(n) : n \in 0..MaxUrlLen }

NormalizeCalls == { [ fn |-> "normalize_url_to_slug", url |-> u ] : u \in DrawnStrings }

(***************************************************************************)
(* The URLs of catalog items, in the forms the catalog and the training    *)
(* data write them: either path prefix, with or without the trailing       *)
(* slash, in either letter case.  item is the catalog item the URL is of.  *)
(***************************************************************************)
\* the slug of each item as it is written: lower case, capitalised, encoded
ItemSlugs ==
    << { << "foo" >>, << "Foo" >> },
       { << "foo", "-", "bar" >>, << "Foo", "%2D", "bar" >>, << "foo", "%2d", "bar" >> },
       { << "bar", "%20", "foo" >>, << "bar", " ", "foo" >>, << "bar", "%20", "Foo" >> } >>

PathPrefixes ==
    { ProductsPath, SolutionsPath,
      << "/", "Products", "/", "product-catalog", "/", "view", "/" >>,
      << "/", "solutions", "/", "Products", "/", "product-catalog", "/", "View", "/" >> }

CatalogUrl(prefix, slug, slash) ==
    << Host >> \o prefix \o slug \o (IF slash THEN << "/" >> ELSE << >>)

CatalogUrls ==
    UNION { { [ item |-> i, url |-> CatalogUrl(prefix, slug, slash) ] :
                prefix \in PathPrefixes, slug \in ItemSlugs[i], slash \in BOOLEAN } :
            i \in DOMAIN ItemSlugs }

VariantsCalls == { [ fn |-> "get_all_url_variants", url |-> u.url ] : u \in CatalogUrls }

MatchCalls ==
    { [ fn |-> "urls_match", url1 |-> u1.url, url2 |-> u2.url,
        item1 |-> u1.item, item2 |-> u2.item ] : u1 \in CatalogUrls, u2 \in CatalogUrls }

(***************************************************************************)
(* Queries that state a duration: a duration phrase after other words.     *)
(* matches holds what re.search captures for each of the nine patterns.    *)
(***************************************************************************)
DurationPhrases ==
    { [ words |-> << "30", "minutes" >>,
        matches |-> << <<30>>, <<30>>, <<>>, <<>>, <<>>, <<>>, <<>>, <<>>, <<>> >> ],
      [ words |-> << "45", "mins" >>,
        matches |-> << <<>>, <<45>>, <<>>, <<>>, <<>>, <<>>, <<>>, <<>>, <<>> >> ],
      [ words |-> << "2", "hours" >>,
        matches |-> << <<>>, <<>>, <<2>>, <<>>, <<>>, <<>>, <<>>, <<>>, <<>> >> ],
      [ words |-> << "1", "hrs" >>,
        matches |-> << <<>>, <<>>, <<>>, <<1>>, <<>>, <<>>, <<>>, <<>>, <<>> >> ],
      [ words |-> << "about", "20" >>,
        matches |-> << <<>>, <<>>, <<>>, <<>>, <<>>, <<>>, <<20>>, <<>>, <<>> >> ] }

\* words without digits: no pattern matches in them
OtherWords ==
    { << >>, << "hr", "manager" >>, << "chrome", "developer" >>, << "hourly", "staff" >>,
      << "java", "developer" >> }

DurationQueries ==
    { [ text |-> other \o phrase.words, duration_matches |-> phrase.matches ] :
        other \in OtherWords, phrase \in DurationPhrases }

PreprocessCalls ==
    { [ fn |-> "preprocess_query", query |-> q, seed |-> seed ] :
        q \in DurationQueries \cup Range(Queries), seed \in 0..MaxHashSeed }

(***************************************************************************)
(* Evaluation inputs: labelled URLs in either path form, and recommended   *)
(* lists of catalogue records (url and alternate_urls as the API returns). *)
(***************************************************************************)
MaxRecallK == 3

RelevantUrlPool ==
    { ProductsUrl("core-java-advanced"), SolutionsUrl("core-java-advanced"),
      SolutionsUrl("entry-level-sales"), ProductsUrl("verify-numerical-ability") }

Recommended(i) == [ url |-> Corpus[i].url, alternate_urls |-> Corpus[i].alternate_urls ]

RecommendedLists ==
    { << >> }
    \cup { << Recommended(i) >> : i \in 1..3 }
    \cup { << Recommended(i), Recommended(j) >> : i, j \in 1..3 }
    \cup { << Recommended(i), Recommended(j), Recommended(3) >> : i, j \in 1..2 }

RecallCalls ==
    { [ fn |-> "compute_recall_at_k", relevant_urls |-> r, recommended_assessments |-> l,
        k |-> k ] :
        r \in SUBSET RelevantUrlPool, l \in RecommendedLists, k \in 0..MaxRecallK }

Calls ==
    RuleBasedCalls \cup NormalizeCalls \cup VariantsCalls \cup MatchCalls
        \cup PreprocessCalls \cup RecallCalls

InitFunction ==
    /\ machine = "function"
    /\ pc = "call"
    /\ CommonIdle
    /\ PipelineIdle
    /\ BuildIdle
    /\ EnsembleIdle
    /\ ServiceIdle
    /\ call \in Calls
    /\ value = << >>

FunctionStep ==
    /\ machine = "function" /\ pc = "call"
    /\ pc' = "return"
    /\ UNCHANGED << machine, call >>
    /\ UNCHANGED << common_vars, pipeline_vars, build_vars, ensemble_vars, service_vars >>

ApplyRerankRuleBased ==
    /\ call.fn = "rerank_rule_based"
    /\ FunctionStep
    /\ value' = IF \E i \in DOMAIN call.candidates :
                      RuleBasedRaises(call.candidates[i], call.query_info)
                THEN Raised
                ELSE Returned(rerank_rule_based(call.candidates, call.query_info))

ApplyNormalize ==
    /\ call.fn = "normalize_url_to_slug"
    /\ FunctionStep
    /\ value' = Returned(normalize_url_to_slug(call.url))

\* alternate_urls is left at its default None, which adds nothing
ApplyVariants ==
    /\ call.fn = "get_all_url_variants"
    /\ FunctionStep
    /\ value' = Returned(get_all_url_variants(call.url, << >>))

ApplyUrlsMatch ==
    /\ call.fn = "urls_match"
    /\ FunctionStep
    /\ value' = Returned(urls_match(call.url1, call.url2, << >>, << >>))

ApplyPreprocess ==
    /\ call.fn = "preprocess_query"
    /\ FunctionStep
    /\ value' = Returned(preprocess_query(call.query, call.seed))

ApplyRecall ==
    /\ call.fn = "compute_recall_at_k"
    /\ FunctionStep
    /\ value' = Returned(compute_recall_at_k(call.relevant_urls, call.recommended_assessments,
                                              call.k))

NextFunction ==
    \/ ApplyRerankRuleBased
    \/ ApplyNormalize
    \/ ApplyVariants
    \/ ApplyUrlsMatch
    \/ ApplyPreprocess
    \/ ApplyRecall

SpecFunction == InitFunction /\ [][NextFunction]_vars

FunctionReturned(fn) == machine = "function" /\ pc = "return" /\ call.fn = fn

\* C15: rerank_rule_based never raises for candidates whose optional fields
\* (duration, test_type, description, remote_support) are absent or null.
C15_RuleBasedNeverRaisesOnMissingFields ==
    FunctionReturned("rerank_rule_based") => value.outcome = "returned"

\* C16: normalize_url_to_slug is idempotent: normalizing a slug it returned
\* gives the same slug, also for inputs with percent-encoded blanks, blanks
\* and trailing slashes.
C16_NormalizeIsIdempotent ==
    FunctionReturned("normalize_url_to_slug")
        => normalize_url_to_slug(value.result) = value.result

\* C17: get_all_url_variants gives the same set whether it is given a
\* catalog URL or the alternate form of that URL, for either path prefix.
C17_VariantsInvariantToUrlForm ==
    FunctionReturned("get_all_url_variants")
        => get_all_url_variants(generate_alternate_url(call.url), << >>) = value.result

C17_Witness ==
    /\ FunctionReturned("get_all_url_variants")
    /\ call.url = << Host >> \o SolutionsPath \o << "bar", "%20", "foo", "/" >>
    /\ generate_alternate_url(call.url) = << Host >> \o ProductsPath \o << "bar", "%20", "foo", "/" >>
    /\ value.result = { << "bar", " ", "foo" >> }

\* C18: two URLs of the same item that differ only in the path prefix, the
\* letter case or a trailing slash match: urls_match returns true.
C18_SameItemUrlsMatch ==
    (FunctionReturned("urls_match") /\ call.item1 = call.item2) => value.result = TRUE

C18_Witness ==
    /\ FunctionReturned("urls_match")
    /\ call.url1 = << Host >> \o ProductsPath \o << "Foo", "/" >>
    /\ call.url2 = << Host >> \o SolutionsPath \o << "foo" >>
    /\ value.result = TRUE

\* C19: query understanding is deterministic: the query info and the expanded
\* query are a function of the query text alone, the same on every call and in
\* every process run (here: the same as in the run with hash seed 0).
C19_QueryUnderstandingIsDeterministic ==
    (machine = "retrieve_advanced" /\ pc # "start") =>
        /\ query_info = preprocess_query(query, 0)
        /\ expanded_query = expand_query(preprocess_query(query, 0))

\* the patterns of duration_patterns whose unit is the hour: the third and fourth
HourPatterns == { 3, 4 }

\* the number the first satisfied pattern captured (the upper bound of a range)
MatchedNumber(q) ==
    LET g == q.duration_matches[FirstMatch(q.duration_matches)]
    IN  IF Len(g) = 2 THEN g[2] ELSE g[1]

\* C20: the duration is converted by the unit of the matched phrase only: the
\* matched number is multiplied by 60 exactly when the first satisfied pattern
\* is an hour pattern, whatever other words the query contains.
C20_DurationUnitOfMatchedPhrase ==
    FunctionReturned("preprocess_query") =>
        LET first == FirstMatch(call.query.duration_matches)
        IN  value.result.duration =
                IF first = 0 THEN NoneInt
                ELSE IF first \in HourPatterns THEN 60 * MatchedNumber(call.query)
                ELSE MatchedNumber(call.query)

\* C21: the preferred categories preprocess_query derives form a set: no
\* category occurs twice in test_types, so a category match is counted at most
\* once per distinct preferred category.
C21_TestTypesHaveNoDuplicates ==
    (machine = "retrieve_advanced" /\ pc # "start") =>
        \A i, j \in DOMAIN query_info.test_types :
            query_info.test_types[i] = query_info.test_types[j] => i = j

Urls(list) == { list[i].url : i \in DOMAIN list }

\* C22: a call returns at most top_k candidates, whatever the reranker and
\* its fallback path: retrieve_advanced only candidates of the pool of
\* hybrid_retrieve, ensemble_retrieve only candidates of its strategies' lists.
C22_ResultWithinTopKAndPool ==
    /\ Done => /\ Len(result) <= top_k
               /\ Urls(result) \subseteq Urls(candidates)
    /\ (Fused /\ pc = "done") => /\ Len(result) <= top_k
                                 /\ Urls(result) \subseteq ContributedUrls

C22_Witness ==
    /\ Done /\ use_llm_rerank /\ ~use_xgboost_rerank /\ llm_mode = "answered"
    /\ top_k >= 1
    /\ Len(result) = top_k
    /\ Len(candidates) > top_k

\* C23: query processing never changes the shared corpus: the index and the
\* metadata records of the vector DB are what the build wrote, and no record
\* carries a score field; the score writes land on the per-query candidates.
C23_QueryProcessingLeavesCorpusUnchanged ==
    machine \in { "retrieve_advanced", "ensemble_retrieve" } =>
        /\ vector_db = VectorDb
        /\ \A i \in DOMAIN vector_db.metadata :
              DOMAIN vector_db.metadata[i] \cap ScoreFields = {}

\* C23 witness: a call that penalised a candidate, reranked by rules and returned
C23_Witness ==
    /\ Done /\ ~use_xgboost_rerank /\ ~use_llm_rerank
    /\ result # << >>
    /\ \E i \in DOMAIN filtered : filtered[i].combined_score # candidates[i].combined_score
    /\ \E i \in DOMAIN result : /\ result[i].rerank_score # NoneInt
                                /\ result[i].rerank_score > 0
    /\ vector_db.metadata = VectorDb.metadata

\* C24: the soft filter only demotes: a candidate's combined_score is
\* unchanged when neither mismatch holds and otherwise not greater than before,
\* also when it is negative; no other field of the candidate changes.
C24_SoftFilterOnlyDemotes ==
    Filtered =>
        \A i \in DOMAIN candidates :
            /\ filtered[i].combined_score <= candidates[i].combined_score
            /\ [ filtered[i] EXCEPT !.combined_score = candidates[i].combined_score ]
                  = candidates[i]

\* the candidate's duration exceeds the query's bound beyond the tolerance
OverTolerance(cand) ==
    /\ OrZero(query_info.duration) # 0
    /\ OrZero(cand.duration) > 0
    /\ OverDuration(cand.duration, query_info.duration)

\* C25: for a query with a duration bound, a candidate over the tolerance
\* stays in the reranked list and stands below every candidate within it.
C25_OverDurationRanksBelowCompliant ==
    (Done /\ ~use_xgboost_rerank /\ ~use_llm_rerank /\ OrZero(query_info.duration) # 0) =>
        /\ Urls(reranked) = Urls(candidates)
        /\ \A i, j \in DOMAIN reranked :
              (OverTolerance(reranked[i]) /\ ~OverTolerance(reranked[j])) => j < i

\* the names of the items of the three-item scenario corpus
ScenarioNames ==
    { << "core", "java", "advanced" >>, << "entry", "level", "sales" >>,
      << "opq", "personality" >> }

\* in the reranked list no other scenario item stands above the named one
FirstOfScenario(name) ==
    \E i \in DOMAIN reranked :
        /\ reranked[i].name = name
        /\ \A j \in 1..(i - 1) : reranked[j].name \notin ScenarioNames

\* C26: on the scenario corpus the item whose name carries the query's skill
\* and role tokens is ranked first whatever the semantic scores are: "Java
\* developer, 40 minutes" puts "Core Java Advanced" first and "entry level
\* sales role" puts "Entry Level Sales" first.
C26_NamedItemRanksFirst ==
    (Done /\ ~use_xgboost_rerank /\ ~use_llm_rerank /\ embedding_ok) =>
        /\ query = Queries[1] => FirstOfScenario(<< "core", "java", "advanced" >>)
        /\ query = Queries[2] => FirstOfScenario(<< "entry", "level", "sales" >>)


\* the relevant slugs that a variant set of the first k recommended items holds
MatchedRelevant(relevant_urls, recommended_assessments, k) ==
    { s \in NormalizedRelevant(relevant_urls) :
        \E i \in 1..Min(k, Len(recommended_assessments)) :
            s \in get_all_url_variants(recommended_assessments[i].url,
                                       recommended_assessments[i].alternate_urls) }

\* C27: compute_recall_at_k returns |relevant slugs matched by the variant sets
\* of the first K recommended items| / |relevant slugs|; the value lies in
\* [0, 1], is 0 for an empty relevant set, counts a relevant item once even when
\* several of its URL variants are recommended, and never decreases when K grows.
C27_RecallAtK ==
    FunctionReturned("compute_recall_at_k") =>
        LET rel == call.relevant_urls
            rec == call.recommended_assessments
        IN  /\ value.outcome = "returned"
            /\ value.result >= 0 /\ value.result <= RecallUnit
            /\ rel = {} => value.result = 0
            /\ rel # {} =>
                 value.result * Cardinality(NormalizedRelevant(rel))
                    = RecallUnit * Cardinality(MatchedRelevant(rel, rec, call.k))
            /\ \A k2 \in call.k..MaxRecallK :
                 compute_recall_at_k(rel, rec, k2) >= value.result

\* one relevant item labelled in both path forms, recommended twice with its
\* alternate URL: recall is exactly 1
C27_Witness ==
    /\ FunctionReturned("compute_recall_at_k")
    /\ call.relevant_urls = { ProductsUrl("core-java-advanced"),
                              SolutionsUrl("core-java-advanced") }
    /\ call.recommended_assessments = << Recommended(1), Recommended(1) >>
    /\ call.k = 2
    /\ value = Returned(RecallUnit)


UrlOrder(list) == [ i \in DOMAIN list |-> list[i].url ]

\* C28: in ensemble_retrieve with use_llm_rerank, when the language-model
\* reranking fails (every model call fails or no usable URL list comes back),
\* the returned list is the ensemble result: the first top_k fused candidates in
\* descending ensemble_score order, as returned without use_llm_rerank.
C28_FailedLlmRerankReturnsEnsembleResult ==
    (machine = "ensemble_retrieve" /\ pc = "done" /\ use_llm_rerank /\ llm_mode = "no_answer")
        => UrlOrder(result) = UrlOrder(Take(ensemble_candidates, top_k))


\* C29: llm_rerank returns every candidate at most once and at most top_k
\* candidates, whatever URL list the language model answers with: a list that
\* repeats a URL, names the primary and an alternate URL of one candidate, or
\* matches a candidate only by a slug substring.
C29_LlmRerankReturnsEachCandidateOnce ==
    (Done /\ ~use_xgboost_rerank /\ use_llm_rerank /\ llm_mode = "answered") =>
        /\ Len(result) <= top_k
        /\ \A i, j \in DOMAIN result : result[i].url = result[j].url => i = j


(***************************************************************************)
(* The _initialized flag of the API process.                               *)
(***************************************************************************)
Artifacts == << index_file, metadata_file, data_files, builds, trainings >>

\* C30: the _initialized flag follows a one-way protocol: it becomes True only
\* at the end of an ensure_initialized call, with the vector DB artifacts on
\* disk (found or built); a call that raises leaves it False and the next
\* call tests again; once it is True it stays True and every later call
\* returns at once, touching no artifact; /recommend answers with
\* recommendations only when the flag is set.
C30_InitializedFlagProtocol ==
    [][ machine = "ensure_initialized" =>
          \A w \in Workers :
            LET old == workers[w]
                new == workers'[w]
                called == new.calls = old.calls + 1
            IN  /\ old.initialized => new.initialized
                /\ (~old.initialized /\ new.initialized) =>
                      /\ new.pc = "returned"
                      /\ Exists(index_file') /\ Exists(metadata_file')
                /\ new.pc = "raised" => ~new.initialized
                /\ (called /\ ~old.initialized) => new.pc = "check_db"
                /\ (called /\ old.initialized) =>
                      /\ new.pc = "returned"
                      /\ Artifacts' = Artifacts
                /\ new.response = "recommendations" => new.initialized
      ]_vars

\* one process whose startup and retry both raised, next to one whose startup
\* initialised and whose request was answered with recommendations
C30_Witness ==
    /\ machine = "ensure_initialized"
    /\ \E w1, w2 \in Workers :
          /\ workers[w1].calls = 2 /\ workers[w1].pc = "raised" /\ ~workers[w1].initialized
          /\ workers[w1].response = "http_500"
          /\ workers[w2].calls = 2 /\ workers[w2].initialized
          /\ workers[w2].response = "recommendations"

=============================================================================
